------------------------------ MODULE Palette ------------------------------
(***************************************************************************)
(* The command menu of the terminal user interface (crates/omp-cli,        *)
(* editor.rs): what a text that begins with a slash may be completed to,   *)
(* given what the session's snapshot says of levels, models, providers,    *)
(* aliases and settings.                                                   *)
(*                                                                         *)
(* Abstractions.  A text is a word, a command or a message, with what      *)
(* follows it behind a blank, or None.  How one name begins with another,  *)
(* or contains it, is given as a relation.                                 *)
(***************************************************************************)
EXTENDS Picking, SequencesExt

CONSTANTS Commands, \* the words that begin with a slash
          Roster,   \* base_command_roster: completions in their order
          Settings, \* the settings built in, in their order
          Begins,   \* <<a, b>>: the text b begins with a, in whatever case
          Within,   \* <<a, b>>: the text b contains a
          Inside,   \* <<a, b>>: so does the name b
          Empty,    \* what follows a word and its blank, when nothing does
          None

\* Whatever its elements are.
IsSequence(s) == s \in Seq({s[i] : i \in DOMAIN s})

ASSUME PaletteAssumption == IsSequence(Roster) /\ IsSequence(Settings)

Text(word, arg) == [word |-> word, arg |-> arg]
Completion(insert, execute) == [insert |-> insert, execute |-> execute]

IsCommand(text) == text.word \in Commands
Has(whole, part) == part = whole \/ <<part, whole>> \in Inside

-----------------------------------------------------------------------------
(* The levels of effort that the active model advertises, and the two that   *)
(* always apply. *)

LevelCompletions(query, facts) ==
    LET levels == facts.levels \o <<"auto", "off">>
        hits   == Picked(levels, {i \in DOMAIN levels :
                                    query = Empty \/ Has(levels[i], query)})
    IN  [i \in DOMAIN hits |-> Completion(Text("/effort", hits[i]), TRUE)]

\* matches_query: the model's name or its provider's.
MatchesQuery(query, id, provider) ==
    query = Empty \/ Has(id, query) \/ Has(query, id) \/ Has(provider, query)

\* model_completions: the active provider's models, then those of the others,
\* whose choice switches the provider first.
ModelCompletions(query, facts) ==
    LET Hits(models, provider) ==
            Picked(models, {i \in DOMAIN models : MatchesQuery(query, models[i], provider)})
        Select(hits) ==
            [i \in DOMAIN hits |-> Completion(Text("/provider select", hits[i]), TRUE)]
        Switch(hits, name) ==
            [i \in DOMAIN hits |->
               Completion(Text("/provider use", <<name, hits[i]>>), TRUE)]
        others == Picked(facts.records,
                         {i \in DOMAIN facts.records : ~facts.records[i].active})
    IN  Select(Hits(facts.models, facts.provider))
        \o FlattenSeq([i \in DOMAIN others |->
                         Switch(Hits(others[i].models, others[i].name), others[i].name)])

\* populate_snapshot_completions: the aliases, the settings the session has,
\* and those it has not set.
SnapshotCompletions(facts) ==
    LET unset == Picked(Settings, {i \in DOMAIN Settings :
                                     \A k \in DOMAIN facts.settings :
                                       facts.settings[k] # Settings[i]})
        named == facts.settings \o unset
    IN  [i \in DOMAIN facts.aliases |-> Completion(Text(facts.aliases[i], None), TRUE)]
        \o [i \in DOMAIN named |-> Completion(Text(named[i], Empty), FALSE)]

\* completions.
Completions(text, facts) ==
    LET all == Roster \o SnapshotCompletions(facts)
        first == {i \in DOMAIN all :
                    text = all[i].insert \/ <<text, all[i].insert>> \in Begins}
        later == {i \in DOMAIN all \ first : <<text, all[i].insert>> \in Within}
    IN  CASE ~IsCommand(text) -> <<>>
          [] IsCommand(text) /\ text.word = "/effort" ->
               IF text.arg = None THEN <<Completion(Text("/effort", Empty), TRUE)>>
               ELSE LevelCompletions(text.arg, facts)
          [] text.word = "/provider select" /\ text.arg # None ->
               ModelCompletions(text.arg, facts)
          [] OTHER ->
               IF text.arg # None /\ <<Text("/provider", None), text>> \notin Begins
               THEN <<>>
               ELSE Picked(all, first) \o Picked(all, later)

=============================================================================

------------------------------ MODULE Console ------------------------------
(***************************************************************************)
(* The console of a session host (omp-control): command scripts            *)
(* (command.rs), settings (convar.rs), execute_command (host.rs), the      *)
(* providers a session knows and the one it uses (provider_config.rs),     *)
(* and the catalogs they publish (omp-inference, provider.rs).             *)
(*                                                                         *)
(* Abstractions.  Every setting is in the session; one plain setting, one  *)
(* key and one alias stand for all.  An endpoint is its normalized form,   *)
(* with one dialect, and the environment has keys but no settings.  Of a   *)
(* model there is its context length and its reasoning levels, 0 and none  *)
(* if nothing is said.  What the console prints is left out.  The journal  *)
(* never refuses (module Journal has that), and `saved' is an offset of it *)
(* that the session may go back to, also one in the middle of a command,   *)
(* which is where a crash leaves the session.                              *)
(***************************************************************************)
EXTENDS Picking, SequencesExt, FiniteSetsExt

CONSTANTS Endpoints, Names, Keys,
          Insecure,    \* endpoints that are no URL to send a key to
          HostOf,      \* the host of each endpoint, a name
          Catalogs,    \* the sequences of pages that catalogs consist of
          Registry,    \* the providers of the public registry, in its order
          Scripts,     \* that the user enters
          Bodies,      \* of the alias
          Source,      \* every cfg file, in the workspace or the user's
          Unset,
          Models,      \* ids of models, above 0
          MaxPages,    \* of a catalog
          MaxDepth,    \* of files that execute files
          MaxSteps,    \* bound: statements a script comes to
          MaxCommands  \* bound: commands of the user

\* The settings and what they may be.
Values == [endpoint |-> Endpoints \cup {Unset}, key |-> Keys \cup {Unset},
           model |-> Nat, name |-> Names \cup {Unset}, limit |-> Nat,
           levels |-> SUBSET Nat, thinking |-> Nat, plain |-> Nat]

\* A statement whose words have their types, and a sequence of such.
Stated(s) ==
    /\ "verb" \in DOMAIN s
    /\ s.verb = "set" => s.name \in DOMAIN Values /\ s.value \in Values[s.name]
    /\ s.verb = "alias" => s.body \in Bodies
    /\ s.verb \in {"add", "configure"} =>
         s.endpoint \in Endpoints /\ s.key \in Keys \cup {Unset}
    /\ s.verb \in {"add", "configure", "select"} => s.model \in Nat
    /\ s.verb = "add" => s.name \in Names
    /\ s.verb = "effort" => s.level \in Nat
Parsed(script) ==
    /\ script \in Seq(ToSet(script))
    /\ \A k \in DOMAIN script : Stated(script[k])

\* A page of a catalog, of which entries may have no id.
Entries == [id : Nat \cup {Unset}, limit : Nat, levels : SUBSET Nat]

ASSUME ConsoleAssumption ==
    /\ HostOf \in [Endpoints -> Names] /\ Insecure \subseteq Endpoints
    /\ Unset \notin Endpoints \cup Names \cup Keys
    /\ \A script \in Scripts \cup Bodies \cup {Source} : Parsed(script)
    /\ Unset \notin Bodies /\ Models \subseteq Nat
    /\ \A pages \in Catalogs :
         /\ pages \in Seq(ToSet(pages))
         /\ \A k \in DOMAIN pages : \A i \in DOMAIN pages[k].models :
              pages[k].models[i] \in Entries
    /\ Registry \in Seq(ToSet(Registry))
    /\ \A k \in DOMAIN Registry : \A id \in DOMAIN Registry[k].models :
         /\ Registry[k].models[id].limit \in Nat
         /\ Registry[k].models[id].levels \subseteq Nat
    /\ MaxPages \in Nat /\ MaxDepth \in Nat /\ MaxSteps \in Nat
    /\ MaxCommands \in Nat

VARIABLES
    snapshot, \* what the session's snapshot says
    saved,    \* an earlier snapshot
    settings, \* SessionHost.convars
    client,   \* SessionHost.provider
    present,  \* the keys in the environment
    catalog,  \* what each endpoint answers
    last,     \* the last command: its script, and whether it succeeded
    sent,     \* the inference of the last turn, and what it was asked with
    commands

world == <<present, catalog>>
consoleVars == <<snapshot, saved, settings, client, world, last, sent, commands>>

Default == [endpoint |-> Unset, key |-> Unset, model |-> 0, name |-> Unset,
            limit |-> 0, levels |-> {}, thinking |-> 0, plain |-> 0]

ReadOnly == {"limit", "levels"}
OfProvider == {"endpoint", "key", "model"}
OfHost == {"endpoint", "key", "name"}

\* ProviderClient::unconfigured: no adapter, and so no inference.
Unconfigured == [endpoint |-> Unset, key |-> Unset, model |-> 0, meta |-> Unset]

NewSession == [set |-> Default, bind |-> FALSE, alias |-> Unset,
               registry |-> <<>>, meta |-> Unset, failed |-> FALSE, force |-> 0]

NoTurn == [asked |-> Unconfigured, of |-> Default]

ConsoleInit ==
    /\ snapshot = NewSession /\ saved = NewSession /\ settings = Default
    /\ client = Unconfigured /\ present \in SUBSET Keys
    /\ catalog \in [Endpoints \ Insecure -> Catalogs]
    /\ last = [script |-> <<>>, ok |-> TRUE, nth |-> 0] /\ sent = NoTurn /\ commands = 0

-----------------------------------------------------------------------------
(* Catalogs. *)

\* parse_model_metadata: an entry without an id is no model.
Usable(entry) == entry.id # Unset

\* parse_models_catalog: a page with one that is unusable is no catalog, and
\* execute_models_get does not read an answer that is no page.
Readable(page) ==
    page.next # "failed" /\ \A k \in DOMAIN page.models : Usable(page.models[k])

\* extract_next_page_url: the next page is of the same origin and not the same.
GoesOn(page) == page.next # "none"
Leads(page) == GoesOn(page) => page.next = "more"

\* fetch_all_model_pages, which goes on to the next page unless a page is the
\* last, or has no models and is not the first; all of them, or nothing.
Paged(pages) ==
    LET ends == {k \in 1 .. Len(pages) :
                   ~GoesOn(pages[k]) \/ (k > 1 /\ pages[k].models = <<>>)}
        size == Min(ends)
        empty == size > 1 /\ pages[size].models = <<>>
        places == UNION {{<<k, i>> : i \in DOMAIN pages[k].models} : k \in 1 .. size}
        model(p) == pages[p[1]].models[p[2]]
    IN  IF \/ ends = {} \/ size > MaxPages
           \/ \E k \in 1 .. size : ~Readable(pages[k])
           \/ \E k \in 1 .. size : ~Leads(pages[k]) /\ ~(k = size /\ empty)
           \/ \E p, q \in places : p # q /\ model(p).id = model(q).id
        THEN {} ELSE {model(p) : p \in places}

\* parse_registry_for_endpoint: of providers with that endpoint the last one
\* that has the model.
Known(endpoint, id) ==
    LET these == {k \in DOMAIN Registry :
                    Registry[k].api = endpoint /\ id \in DOMAIN Registry[k].models}
    IN  IF these = {} THEN [limit |-> 0, levels |-> {}]
        ELSE Registry[Max(these)].models[id]

\* enrich_models_from_registry: what a catalog says is never overridden, and
\* the registry is not asked if the catalog has every context length.
Enriched(endpoint, models) ==
    LET with(m) ==
          [m EXCEPT
             !.limit = IF @ = 0 THEN Known(endpoint, m.id).limit ELSE @,
             !.levels = IF @ = {} THEN Known(endpoint, m.id).levels ELSE @]
    IN  IF \A m \in models : m.limit # 0 THEN models
        ELSE {with(m) : m \in models}

\* do_refresh_metadata.
Fetched(endpoint) ==
    IF endpoint \in Insecure THEN {}
    ELSE Enriched(endpoint, Paged(catalog[endpoint]))

ModelOf(models, id) ==
    LET known == {model \in models : model.id = id}
    IN  IF known = {} THEN [id |-> id, limit |-> 0, levels |-> {}]
        ELSE CHOOSE model \in known : TRUE

-----------------------------------------------------------------------------
(* The client that settings describe. *)

\* validate_endpoint_url.
Valid(endpoint) == endpoint \notin Insecure

\* ProviderClient::new refuses such an endpoint, and a model without any.
Wrong(set) ==
    ~Valid(set.endpoint) \/ (set.endpoint = Unset /\ set.model # 0)

\* provider_from_config: a key that is not set.
Missing(set) ==
    /\ set.endpoint # Unset /\ Valid(set.endpoint)
    /\ set.key # Unset /\ set.key \notin present

ClientOf(set) ==
    [Unconfigured EXCEPT !.endpoint = set.endpoint, !.model = set.model,
       !.key = IF set.endpoint = Unset THEN Unset ELSE set.key]

\* refresh_provider: a client that is the same keeps its catalog; a key that
\* is missing leaves the client alone.
Refreshed(set, old) ==
    LET new == ClientOf(set) IN
    IF Wrong(set) \/ Missing(set) THEN old
    ELSE IF new.endpoint = old.endpoint /\ new.model = old.model
    THEN [new EXCEPT !.meta = old.meta]
    ELSE new

-----------------------------------------------------------------------------
(* The providers of the session. *)

\* Those of an endpoint: their normalized form, and no dialect, tells them.
Matching(registry, endpoint) ==
    {n \in DOMAIN registry : registry[n].endpoint = endpoint}

\* Mutant: the endpoint may already be known by another name.
RecordAlso(registry, name, record, models) ==
    LET old == IF name \in DOMAIN registry THEN registry[name].models ELSE {}
        new == [record EXCEPT !.models = IF models = {} THEN old ELSE models]
    IN  [n \in {name} \cup DOMAIN registry |-> IF n = name THEN new ELSE registry[n]]

\* record_provider: what else has the endpoint is forgotten, and the catalog
\* stays unless there is a new one.
Record(registry, name, record, models) ==
    LET old == IF name \in DOMAIN registry THEN registry[name].models ELSE {}
        new == [record EXCEPT !.models = IF models = {} THEN old ELSE models]
        rest == DOMAIN registry \ Matching(registry, record.endpoint)
    IN  [n \in {name} \cup rest |-> IF n = name THEN new ELSE registry[n]]

\* record_active_provider.
RecordActive(registry, set, new, models) ==
    LET known == Matching(registry, new.endpoint)
        name == IF set.name # Unset THEN set.name ELSE HostOf[new.endpoint]
    IN  IF new.endpoint = Unset THEN registry
        ELSE IF known = {}
        THEN Record(registry, name,
                    [endpoint |-> new.endpoint, key |-> set.key,
                     model |-> new.model, models |-> {}], models)
        ELSE LET n == CHOOSE n \in known : TRUE
             IN  IF models = {} THEN registry
                 ELSE Record(registry, n, registry[n], models)

\* refresh_registered_provider, with a client for the record.
Tried(record) ==
    IF record.key \notin present \cup {Unset} THEN {}
    ELSE Fetched(record.endpoint)

\* refresh_registered_catalogs, of those that are not active.
WithCatalogs(d, onlyEmpty) ==
    LET due(n) ==
            LET record == d.registry[n] IN
            /\ record.endpoint # d.set.endpoint
            /\ onlyEmpty => record.models = {}
            /\ Tried(record) # {}
        with(record) == [record EXCEPT !.models = Tried(record)]
    IN  [d EXCEPT !.registry =
           [n \in DOMAIN @ |-> IF due(n) THEN with(@[n]) ELSE @[n]]]

-----------------------------------------------------------------------------
(* The outcome of a command: what the session says after each record that   *)
(* it wrote, its host's client, and whether it succeeded.                   *)

Outcome(doms, new, ok) == [doms |-> doms, client |-> new, ok |-> ok]
Fails(d) == Outcome(<<d>>, client, FALSE)

\* commit_provider: what the catalog says of the selected model is what the
\* settings say; without one they say nothing, and the failure is recorded.
Committed(d, new, key, models) ==
    LET model == ModelOf(models, new.model)
        meta == IF models = {} THEN Unset
                ELSE [endpoint |-> new.endpoint, models |-> models]
        set == [d.set EXCEPT !.endpoint = new.endpoint, !.key = key,
                  !.model = new.model, !.limit = model.limit,
                  !.levels = model.levels, !.thinking = 0]
        said == [d EXCEPT !.set = set, !.meta = meta, !.failed = models = {}]
    IN  Outcome(<<said, [said EXCEPT !.registry =
                            RecordActive(@, set, new, models)]>>,
                [new EXCEPT !.meta = meta], models # {})

\* fetch_selection: the model that is asked for, or else the first.
Selected(new, models) ==
    [new EXCEPT !.model =
       IF \E model \in models : model.id = @ THEN @
       ELSE IF models = {} THEN @ ELSE Min({model.id : model \in models})]

\* Its catalog is fetched and the client becomes the session's, or nothing is.
Adopted(d, new, key, explicit) ==
    LET models == IF new.endpoint = Unset THEN {} ELSE Fetched(new.endpoint)
        found == \E model \in models : model.id = new.model
    IN  IF models = {} \/ (explicit /\ ~found) THEN Fails(d)
        ELSE Committed(d, Selected(new, models), key, models)

\* initialize_provider.
Initialized(d) ==
    LET new == ClientOf(d.set)
        models == Fetched(new.endpoint)
        done == Committed(d, Selected(new, models), d.set.key, models)
        all == WithCatalogs(Last(done.doms), TRUE)
    IN  IF Wrong(d.set) \/ Missing(d.set)
        THEN Committed(d, [new EXCEPT !.key = Unset], d.set.key, {})
        ELSE IF new.endpoint = Unset
        THEN Outcome(<<WithCatalogs(d, TRUE)>>, new, TRUE)
        ELSE [done EXCEPT !.doms = Append(@, all)]

\* execute_provider_command, of those that only write the registry.
Configured(d, action) ==
    CASE action.verb = "add" ->
           [d EXCEPT !.registry =
              Record(@, action.name,
                     [endpoint |-> action.endpoint, key |-> action.key,
                      model |-> action.model, models |-> {}], {})]
      [] action.verb = "remove" ->
           [d EXCEPT !.registry = [n \in DOMAIN @ \ {action.name} |-> @[n]]]
      [] OTHER -> d

ConfiguredAll(d, actions) ==
    LET after[k \in 0 .. Len(actions)] ==
            IF k = 0 THEN d ELSE Configured(after[k - 1], actions[k])
    IN  after[Len(actions)]

\* The others of execute_provider_command.
Provided(d, action) ==
    LET asked == [d.set EXCEPT !.endpoint = action.endpoint, !.key = action.key,
                               !.model = action.model]
        record == d.registry[action.name]
        used == [d.set EXCEPT !.endpoint = record.endpoint, !.key = record.key,
                              !.model = record.model]
        choice == [ClientOf(d.set) EXCEPT !.model = action.model]
    IN  CASE action.verb = "configure" ->
               IF Wrong(asked) \/ Missing(asked) THEN Fails(d)
               ELSE Adopted(d, ClientOf(asked), asked.key, asked.model # 0)
          [] action.verb = "select" ->
               IF Wrong(d.set) \/ Missing(d.set) THEN Fails(d)
               ELSE Adopted(d, choice, d.set.key, TRUE)
          [] action.verb = "use" ->
               IF \/ action.name \notin DOMAIN d.registry
                  \/ Wrong(used) \/ Missing(used)
               THEN Fails(d)
               ELSE LET done == Adopted(d, ClientOf(used), used.key,
                                        used.model # 0)
                        end == Last(done.doms)
                    IN  IF ~done.ok THEN done
                        ELSE [done EXCEPT !.doms = Append(@, [end EXCEPT
                                !.registry = Record(@, action.name, record,
                                                    end.meta.models)])]
          [] action.verb = "refresh" ->
               LET done == Initialized(d) IN
               IF ~done.ok THEN done
               ELSE [done EXCEPT !.doms =
                       Append(@, WithCatalogs(Last(@), FALSE))]

-----------------------------------------------------------------------------
(* Scripts: execute_loaded on copies of the settings and of the engine.     *)

Verbs == {"set", "bind", "unbind", "alias", "unalias", "call", "exec", "executed",
          "force", "effort", "tool", "add", "remove", "list", "configure",
          "select", "use", "refresh", "show"}

\* parse_statement refuses it.
Bad(s) == s.verb \notin Verbs

Statements(script, depth) == [k \in DOMAIN script |->
                                [statement |-> script[k], depth |-> depth]]

Begin(script, d) ==
    [todo |-> Statements(script, 0), ok |-> TRUE, effects |-> <<>>,
     set |-> d.set, bind |-> d.bind, alias |-> d.alias]

Calls(body) == \E k \in DOMAIN body : body[k].verb = "call"

\* One statement: an alias stands for its body, which is expanded before any
\* of it is executed; a file is executed in place.
Execute(run) ==
    LET s == Head(run.todo).statement
        depth == Head(run.todo).depth
        rest == [run EXCEPT !.todo = Tail(@)]
        done == [rest EXCEPT !.effects = Append(@, s)]
        failed == [rest EXCEPT !.ok = FALSE]
    IN  CASE Bad(s) -> failed
          [] s.verb = "call" ->
               IF run.alias = Unset \/ Calls(run.alias) THEN failed
               ELSE [rest EXCEPT !.todo = Statements(run.alias, depth) \o @]
          [] s.verb = "exec" ->
               IF depth >= MaxDepth THEN failed
               ELSE [rest EXCEPT !.todo =
                       Append(Statements(Source, depth + 1),
                              [statement |-> [s EXCEPT !.verb = "executed"],
                               depth |-> depth]) \o @]
          [] s.verb = "set" ->
               IF s.name \in ReadOnly THEN failed
               ELSE [done EXCEPT !.set[s.name] = s.value]
          [] s.verb = "bind" -> [done EXCEPT !.bind = TRUE]
          [] s.verb = "unbind" -> [done EXCEPT !.bind = FALSE]
          [] s.verb = "alias" -> [done EXCEPT !.alias = s.body]
          [] s.verb = "unalias" -> [done EXCEPT !.alias = Unset]
          [] OTHER -> done

Further(run) == IF ~run.ok \/ run.todo = <<>> THEN run ELSE Execute(run)

Ran(script, d) ==
    LET run[n \in 0 .. MaxSteps] ==
            IF n = 0 THEN Begin(script, d) ELSE Further(run[n - 1])
    IN  run[MaxSteps]

Pure == {"add", "remove", "list"}
Remote == {"configure", "select", "use", "refresh", "show"}
External == {"tool"} \cup Remote

Having(run, verbs) == {k \in DOMAIN run.effects : run.effects[k].verb \in verbs}
Has(run, verbs) == Having(run, verbs) # {}
Sets(run, names) ==
    \E k \in DOMAIN run.effects :
      run.effects[k].verb = "set" /\ run.effects[k].name \in names

\* A file of the workspace sets an endpoint or a key; a command that reaches
\* outside the session is not the only one.
Distrusted(run) ==
    /\ \E k \in DOMAIN run.effects :
         run.effects[k].verb = "executed" /\ ~run.effects[k].trusted
    /\ Sets(run, OfHost) \/ Has(run, Pure \cup Remote)
NotAlone(run) == Has(run, External) /\ Len(run.effects) # 1

\* Mutant: what a script did before it failed is kept.
RefusedLate(run) ==
    (~run.ok /\ run.effects = <<>>) \/ Distrusted(run) \/ NotAlone(run)

\* What is refused before anything is done.
Refused(run) == ~run.ok \/ Distrusted(run) \/ NotAlone(run)

\* The one patch: settings, key, alias and directors.
Patched(d, run) ==
    [d EXCEPT !.set = run.set, !.bind = run.bind, !.alias = run.alias,
              !.force = IF Has(run, {"force"}) THEN 1 ELSE @]

\* execute_command, from the hydrated settings on.  Providers are added and
\* removed first, in records of their own.
Applied(d, run) ==
    LET actions == Picked(run.effects, Having(run, Pure))
        added == ConfiguredAll(d, actions)
        patched == Patched(added, run)
        new == Refreshed(run.set, client)
        changed == Sets(run, OfProvider)
        start == Initialized(patched)
    IN  IF changed /\ Wrong(run.set) THEN Fails(added)
        ELSE IF changed
        THEN [start EXCEPT !.doms = <<added, patched>> \o @,
                           !.ok = @ \/ Missing(run.set)]
        ELSE Outcome(<<added, patched>>, new, ~Wrong(run.set))

\* execute_effort_command: for what is advertised, it is a command to set it.
Tuned(d, level) ==
    IF level # 0 /\ level \notin d.set.levels THEN Fails(d)
    ELSE Applied(d, Ran(<<[verb |-> "set", name |-> "thinking",
                           value |-> level]>>, d))

Commanded(script) ==
    LET run == Ran(script, snapshot) IN
    IF Refused(run) THEN Fails(snapshot)
    ELSE IF run.effects # <<>> /\ Head(run.effects).verb = "effort"
    THEN Tuned(snapshot, Head(run.effects).level)
    ELSE IF Has(run, {"show"}) THEN Outcome(<<snapshot>>, client, TRUE)
    ELSE IF Has(run, Remote) THEN Provided(snapshot, Head(run.effects))
    ELSE Applied(snapshot, run)

-----------------------------------------------------------------------------
(* Actions. *)

\* What a command wrote, of which any record may be gone back to.
Wrote(outcome) ==
    /\ snapshot' = Last(outcome.doms) /\ client' = outcome.client
    /\ \E d \in {saved} \cup ToSet(outcome.doms) : saved' = d

Command ==
    /\ commands < MaxCommands /\ commands' = commands + 1
    /\ \E script \in Scripts : \E outcome \in {Commanded(script)} :
         /\ Wrote(outcome)
         /\ last' = [script |-> script, ok |-> outcome.ok, nth |-> commands']
    /\ settings' = snapshot'.set
    /\ UNCHANGED <<world, sent>>

\* rewind, fork or select of a branch, which the host is not told.
Rewind ==
    /\ snapshot # saved /\ snapshot' = saved
    /\ UNCHANGED <<saved, settings, client, world, last, sent, commands>>

\* change_convar of a client: any value, and no word to the host either.
ChangeConVar ==
    /\ commands < MaxCommands /\ commands' = commands + 1
    /\ \/ \E e \in Endpoints : snapshot' = [snapshot EXCEPT !.set.endpoint = e]
       \/ \E k \in Keys : snapshot' = [snapshot EXCEPT !.set.key = k]
       \/ \E model \in Models : snapshot' = [snapshot EXCEPT !.set.model = model]
    /\ UNCHANGED <<saved, settings, client, world, last, sent>>

\* A host is started on the journal: SessionHost::new, initialize_provider.
StartHost ==
    /\ \E outcome \in {Initialized(snapshot)} : Wrote(outcome)
    /\ settings' = snapshot'.set
    /\ UNCHANGED <<world, last, sent, commands>>

Publish ==
    /\ \E e \in Endpoints \ Insecure, pages \in Catalogs :
         catalog[e] # pages /\ catalog' = [catalog EXCEPT ![e] = pages]
    /\ commands < MaxCommands /\ commands' = commands + 1
    /\ UNCHANGED <<snapshot, saved, settings, client, present, last, sent>>

\* Mutant: the settings are those of the last command.
HydratedNot == settings
Hydrated == snapshot.set

\* restore_provider_metadata: only of the endpoint that it was fetched from.
Restored(new) ==
    [new EXCEPT !.meta =
       IF snapshot.meta # Unset /\ snapshot.meta.endpoint = new.endpoint THEN snapshot.meta
       ELSE Unset]

Unsupported(set, new) ==
    /\ set.thinking # 0 /\ new.meta # Unset
    /\ LET levels == ModelOf(new.meta.models, new.model).levels
       IN  levels # {} /\ set.thinking \notin levels

\* run_turn, as far as its first request: settings are hydrated and the client
\* refreshed; it fails without a catalog, a model, or that reasoning level.
RunTurn ==
    /\ settings' = Hydrated
    /\ client' = IF Wrong(settings') THEN client
                 ELSE Restored(Refreshed(settings', client))
    /\ sent' = IF \/ Wrong(settings') \/ snapshot.failed
                  \/ client'.endpoint = Unset \/ client'.model = 0
                  \/ Unsupported(settings', client')
               THEN NoTurn
               ELSE [asked |-> client', of |-> snapshot.set]
    /\ UNCHANGED <<snapshot, saved, world, last, commands>>

ConsoleNext ==
    \/ Command \/ Rewind \/ ChangeConVar \/ StartHost \/ Publish \/ RunTurn

ConsoleSpec == ConsoleInit /\ [][ConsoleNext]_consoleVars

-----------------------------------------------------------------------------
(* Properties. *)

Settings == [endpoint : Endpoints \cup {Unset}, key : Keys \cup {Unset},
             model : Nat, name : Names \cup {Unset}, limit : Nat,
             levels : SUBSET Nat, thinking : Nat, plain : Nat]

SessionOK(d) ==
    /\ d.set \in Settings /\ d.bind \in BOOLEAN
    /\ d.alias \in Bodies \cup {Unset} /\ d.failed \in BOOLEAN
    /\ DOMAIN d.registry \subseteq Names /\ d.force \in 0 .. 1
    /\ d.failed => d.meta = Unset

\* Types of the variables; a client without an endpoint has no key.
ConsoleTypeOK ==
    /\ SessionOK(snapshot) /\ SessionOK(saved) /\ settings \in Settings
    /\ client.endpoint = Unset => client.key = Unset /\ client.meta = Unset
    /\ present \subseteq Keys /\ catalog \in [Endpoints \ Insecure -> Catalogs]
    /\ last.script \in Scripts \cup {<<>>} /\ last.ok \in BOOLEAN
    /\ commands \in 0 .. MaxCommands

\* What only a script changes.
Own(d) == <<d.set.plain, d.set.name, d.bind, d.alias, d.force>>

\* `Execute a command atomically': a script has all of its settings, keys,
\* aliases and directors, or none of them; none if a statement of it fails,
\* and all if it succeeds, unless it is one for the reasoning effort.
AllOrNothing ==
    [][last' # last =>
         LET run == Ran(last'.script, snapshot)
             all == Own(Patched(snapshot, run))
         IN  /\ Own(snapshot') \in {Own(snapshot), all}
             /\ ~run.ok => Own(snapshot') = Own(snapshot)
             /\ last'.ok /\ ~Has(run, {"effort"}) => Own(snapshot') = all]_consoleVars

\* `Two records for one endpoint would both look active': at any offset of the
\* session a provider is known by one name.
OneName ==
    /\ ConsoleTypeOK
    /\ \A d \in {snapshot, saved} : \A m, n \in DOMAIN d.registry :
         d.registry[m].endpoint = d.registry[n].endpoint => m = n

\* A turn asks the endpoint and the model that the session names where it is
\* now, with that key, unless the key is missing; and what it knows of its
\* models was published by that endpoint.
TurnFollows ==
    sent # NoTurn =>
      /\ ~Missing(sent.of) =>
           /\ sent.asked.endpoint = sent.of.endpoint
           /\ sent.asked.key = sent.of.key /\ sent.asked.model = sent.of.model
      /\ sent.asked.meta # Unset =>
           sent.asked.meta.endpoint = sent.asked.endpoint

=============================================================================

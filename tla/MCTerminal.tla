----------------------------- MODULE MCTerminal -----------------------------
(* Bounds for TLC: keys of one byte and of several, a paste that holds a    *)
(* line end and the beginning of an end marker, the escape key, the mouse.   *)
EXTENDS Terminal

Csi(bytes) == <<27, 91>> \o bytes
Of(bytes, event) == [bytes |-> bytes, means |-> <<event>>, pause |-> FALSE]

Letter == Of(<<97>>, Char(97, {}))
Space == Of(<<32>>, Char(32, {}))
WideOne == Of(<<228, 184, 150>>, Char(19990, {}))
Accent == Of(<<204, 129>>, Char(769, {}))
Line == Of(<<10>>, Char(106, {"Control"}))
Enter == Of(<<13>>, Key("Enter", {}))
Esc == [bytes |-> <<27>>, means |-> <<Key("Esc", {})>>, pause |-> TRUE]
UpKey == Of(Csi(<<65>>), Key("Up", {}))
DownKey == Of(<<27, 79, 66>>, Key("Down", {}))
LeftKey == Of(Csi(<<68>>), Key("Left", {}))
WordLeft == Of(Csi(<<49, 59, 53, 68>>), Key("Left", {"Control"}))
ShiftEnter == Of(Csi(<<49, 51, 59, 50, 117>>), Key("Enter", {"Shift"}))
DeleteKey == Of(Csi(<<51, 126>>), Key("Delete", {}))
BackspaceKey == Of(<<127>>, Key("Backspace", {}))
KillStart == Of(<<21>>, Char(117, {"Control"}))
KillWord == Of(<<23>>, Char(119, {"Control"}))
Interrupt == Of(<<3>>, Char(99, {"Control"}))
AltLetter == Of(<<27, 98>>, Char(98, {"Alt"}))
AltWide == Of(<<27, 228, 184, 150>>, Char(19990, {"Alt"}))
AltUp == Of(<<27>> \o Csi(<<65>>), Key("Up", {"Alt"}))
Wheel == Of(Csi(<<60, 54, 53, 59, 49, 59, 49, 77>>), Mouse("ScrollDown", {}))
Release == [bytes |-> Csi(<<60, 48, 59, 49, 59, 49, 109>>), means |-> <<>>, pause |-> TRUE]
Pasted == Of(PasteStart \o <<97, 13, 27, 91, 50>> \o PasteEnd,
             Paste(<<97, 13, 27, 91, 50>>))

TwoEarlier == <<<<98>>, <<97, 10, 98>>>>

AllTokens ==
    {Letter, Space, WideOne, Accent, Line, Enter, Esc, UpKey, DownKey, LeftKey,
     WordLeft, ShiftEnter, DeleteKey, BackspaceKey, KillStart, KillWord,
     Interrupt, AltLetter, AltWide, AltUp, Wheel, Release, Pasted}

=============================================================================

------------------------------ MODULE MC_CosPatch -----------------------------
(***************************************************************************)
(* Scripts for CosPatch: a binary one with blocks for two base versions, a *)
(* text, and a recovery script of the old format, without sections.        *)
(***************************************************************************)
EXTENDS CosPatch

L(h, a) == [h |-> h, a |-> a]
Block(v, n) ==
  FlattenSeq([k \in 1..n |-> << L("F", <<v, k, n>>), L("ASSERT", "9000") >>])

Owner(base) == <<"PATCH", base>>
Section(h, base, body) == <<L(h \o "BEGIN", Owner(base))>> \o body \o <<L(h \o "END", Owner(base))>>

Binary(v0, v1) ==
  [bin |-> TRUE, lines |->
    << L("#", ""), L("SCRIPTS_VER_BEGIN", ""), L("VER", 1) >>
    \o Section("VER_", "020000", <<L("VER", v0)>>)
    \o Section("VER_", "020100", <<L("VER", v1)>>)
    \o << L("SCRIPTS_VER_END", ""), L("SCRIPTS_COMMANDS_BEGIN", "") >>
    \o Section("", "020000", Block(v0, 2))
    \o Section("", "020100", Block(v1, 3))
    \o << L("SCRIPTS_COMMANDS_END", "") >>]

Text(v) == [bin |-> FALSE,
            lines |-> << L("VER", v), L("", ""), L("RAW", "reset") >> \o Block(v, 2)]

\* With an NCI command the COS refuses.
Raw(v) == [bin |-> FALSE, lines |-> Text(v).lines \o << L("RAW", "5A") >>]

Patches == { NoFile, Binary(11, 21), Raw(21), Text(21), Text(11) }
Recovery ==
  [bin |-> TRUE, lines |-> << L("SEND", <<20, 1, 2>>), L("SLEEP", ""), L("RAW", "5A"),
                              L("F", <<20, 2, 2>>), L("ASSERT", "9000") >>]

\* For the counters alone: scripts of one command.
OnePatch == { [bin |-> FALSE, lines |-> << L("VER", 21), L("", ""), L("F", <<21, 1, 1>>) >>] }
ShortRecovery == [bin |-> TRUE, lines |-> << L("F", <<20, 1, 1>>) >>]
===============================================================================

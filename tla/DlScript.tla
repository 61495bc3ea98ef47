------------------------------- MODULE DlScript -------------------------------
(***************************************************************************)
(* What an update script says (tms-cos-dl-common/tmsDlCommonUtils.cpp).    *)
(*                                                                         *)
(* A script is a sequence of lines [h, a]: a header word and an argument.  *)
(* The binary form, whose bytes are chained by XOR, and the text form give *)
(* the same lines; what differs is which lines become commands, and that   *)
(* only the binary form has sections: one block of versions and one block  *)
(* of commands for every chip it is made for.                              *)
(*                                                                         *)
(* A section header's argument is the owner of the section: a pair, either *)
(* <<"PATCH", base version>> for the COS of the secure element or          *)
(* <<key, type>> for the NFC controller.                                   *)
(***************************************************************************)
EXTENDS Integers, Sequences, SequencesExt, FiniteSetsExt

InvalidVer == -1    \* INVALID_COS_VER
NoBase     == "FFFFFFFF"  \* INVALID_FW_VER: the chip is not a COS

\* Header words and the command types they stand for (InitHeadersMap,
\* parseHeader): upper and lower case are one word here.
HeaderType(h) ==
  CASE h \in {"F", "SEND"}     -> "APDU"
    [] h \in {"WAIT", "SLEEP"} -> "SLEEP"
    [] h \in {"V", "VER"}      -> "VERSION"
    [] h \in {"RAW", "ASSERT", "SCRIPTS_VER_BEGIN", "SCRIPTS_VER_END",
              "SCRIPTS_COMMANDS_BEGIN", "SCRIPTS_COMMANDS_END",
              "VER_BEGIN", "VER_END", "BEGIN", "END"} -> h
    [] OTHER -> "INVALID"

\* A raw frame is for the T=1 line or for the NFC controller.  The text form
\* looks for the 5A in front of the word RAW (tmsDlCommonUtils.cpp:1615).
CmdType(line, bin) ==
  LET t == HeaderType(line.h) IN
  IF t # "RAW" THEN t ELSE IF bin /\ line.a = "5A" THEN "T1" ELSE "NCI"

Cmd(line, bin) == [t |-> CmdType(line, bin), a |-> line.a]

\* Comments and empty lines are dropped, everything else is a command of
\* the binary form, words it does not know included.
ParseBinSC(lines) ==
  LET said == SelectSeq(lines, LAMBDA l : l.h \notin {"#", ""}) IN
  [i \in DOMAIN said |-> Cmd(said[i], TRUE)]

\* The text form keeps what it can execute (vtpTxtDownload).
ParseTxt(lines) ==
  LET said == SelectSeq(lines, LAMBDA l :
                 CmdType(l, FALSE) \in {"APDU", "SLEEP", "ASSERT", "NCI"}) IN
  [i \in DOMAIN said |-> Cmd(said[i], FALSE)]

(***************************************************************************)
(* Sections.                                                               *)
(***************************************************************************)
KnownBlocks ==
  ({"PATCH"} \X {"020000", "020100", "020200"}) \cup ({"T", "R"} \X {"EC1", "EC2"})

BlockOf(chip) ==
  IF chip.base # NoBase THEN <<"PATCH", chip.base>> ELSE <<chip.key, chip.kind>>

\* The lists of InitChipInfoVer and InitChipInfoCmds: empty for a chip the
\* scripts do not know.
InitChipInfoVer(chip) ==
  IF BlockOf(chip) \in KnownBlocks
    THEN << [t |-> "SCRIPTS_VER_BEGIN"], [t |-> "VERSION"],
            [t |-> "VER_BEGIN", a |-> BlockOf(chip)] >>
    ELSE <<>>

InitChipInfoCmds(chip) ==
  IF BlockOf(chip) \in KnownBlocks
    THEN << [t |-> "SCRIPTS_VER_BEGIN"], [t |-> "VERSION"],
            [t |-> "BEGIN", a |-> BlockOf(chip)],
            [t |-> "END", a |-> BlockOf(chip)] >>
    ELSE <<>>

\* A script with sections begins as the list does.
HasSections(sc) ==
  /\ Len(sc) >= 2
  /\ sc[1].t = "SCRIPTS_VER_BEGIN" /\ sc[2].t = "VERSION"

SameSection(cmd, mark) == cmd.t = mark.t /\ cmd.a = mark.a

\* The version a script has for a chip: that of its block, or the one line
\* of a script of the old format.
GetCosVer(chipInfo, sc) ==
  LET found == {i \in 3..(Len(sc) - 1) :
                  SameSection(sc[i], chipInfo[3]) /\ sc[i+1].t = "VERSION"} IN
  CASE chipInfo = <<>> \/ sc = <<>> -> InvalidVer
    [] HasSections(sc) -> IF found = {} THEN InvalidVer ELSE sc[Min(found) + 1].a
    [] OTHER -> IF sc[1].t = "VERSION" THEN sc[1].a ELSE InvalidVer

\* GetCosVerFromVtp looks at the first 2000 bytes of a binary script only,
\* and at the first line of a text.
GetCosVerFromVtp(file, chip, head) ==
  LET sc == ParseBinSC(SubSeq(file.lines, 1, Min({head, Len(file.lines)}))) IN
  CASE file.lines = <<>> -> InvalidVer
    [] file.bin -> GetCosVer(InitChipInfoVer(chip), sc)
    [] OTHER -> IF file.lines[1].h \in {"V", "VER"} THEN file.lines[1].a ELSE InvalidVer

\* The commands execBinCmds goes through: from the node GetCmdsHead returns
\* up to the end mark it leaves in ppHeadChipInfo.
GetCmds(chipInfo, sc) ==
  LET bgn  == {i \in 3..(Len(sc) - 1) : sc[i].t = "SCRIPTS_COMMANDS_BEGIN"}
      head == {i \in 3..(Len(sc) - 1) :
                 SameSection(sc[i], chipInfo[3]) /\ i >= Min(bgn)}
      from == Min(head) + 1
      tail == {i \in from..Len(sc) : SameSection(sc[i], chipInfo[4])}
      to   == IF tail = {} THEN Len(sc) ELSE Min(tail) - 1 IN
  CASE chipInfo = <<>> \/ sc = <<>> -> <<>>
    [] ~HasSections(sc) -> sc
    [] bgn = {} \/ head = {} -> <<>>
    [] OTHER -> SubSeq(sc, from, to)

\* The commands a download of this file executes on this chip.
Commands(file, chip) ==
  IF file.bin THEN GetCmds(InitChipInfoCmds(chip), ParseBinSC(file.lines))
              ELSE ParseTxt(file.lines)

(***************************************************************************)
(* One command (tryExecCmd).  rsp is what the response buffer holds: the   *)
(* status word of the last response, or "none" when it is too short to     *)
(* have one.  doChk is the flag that makes the next ASSERT look at it.     *)
(***************************************************************************)
Sw9000 == "9000"

\* An APDU never fails: whatever went wrong is left to the next ASSERT.
AfterApdu(execStatus, rsp, doChk) ==
  [status |-> "SUCCESS", rsp |-> rsp,
   doChk |-> doChk \/ execStatus # "SUCCESS" \/ rsp \notin {Sw9000, "none"}]

\* Mutant of AssertHolds: a response too short to compare is let through.
AssertHoldsIfShort(arg, rsp) == arg = "x" \/ rsp = "none" \/ rsp = arg

\* "x" accepts anything; otherwise the last four digits are compared.
AssertHolds(arg, rsp) == arg = "x" \/ (rsp # "none" /\ rsp = arg)

AfterAssert(arg, rsp, doChk) ==
  [status |-> IF doChk /\ ~AssertHolds(arg, rsp) THEN "FATAL_ERROR" ELSE "SUCCESS",
   rsp |-> rsp, doChk |-> FALSE]

\* Any other NCI command is sent like an APDU, but a failure is one.
NciExecuted(cmd) == cmd.t = "NCI" /\ cmd.a \notin {"reset", "init"}

\* Waiting, T=1 frames, the NCI reset and init commands and unknown words.
AfterNothing(rsp, doChk) == [status |-> "SUCCESS", rsp |-> rsp, doChk |-> doChk]
===============================================================================

------------------------------- MODULE MC_ChipDl -------------------------------
EXTENDS ChipDl

Chip(fw, bl) == [key |-> IF bl = OldBl THEN "T" ELSE "R", bl |-> bl, fw |-> fw]
TChip(fw)    == [key |-> "T", bl |-> 1, fw |-> fw]
ForR(v)      == [T |-> InvalidVer, R |-> v]
ForBoth(v)   == [T |-> v, R |-> v + 1]

Cos(n, e) == [nfc |-> n, ese |-> e]
Own   == {"own"}
Other == {"other"}

Scene(chip, fw, bl, cos, who) ==
  [chip |-> chip, files |-> [fw |-> fw, plain |-> NoFile, bl |-> bl, cos |-> cos], callers |-> who]

AllScenes ==
  { \* A chip that is behind: a new firmware, and with it a new COS or a new
    \* boot loader.
    Scene(Chip(1, 1), ForR(2), NoFile, Cos(Own, {}), {"open"}),
    Scene(Chip(1, 1), ForR(2), ForR(2), Cos({}, {}), {"service"}),
    \* Its firmware was cut short; no boot loader is installed for it.
    Scene(Chip(InvalidVer, 1), ForR(2), ForR(InvalidVer), Cos({}, {}), {"open", "service"}),
    \* The old boot loader has the other key; a COS script for another chip.
    Scene(Chip(1, OldBl), ForBoth(2), ForBoth(2), Cos(Other, {}), {"service"}),
    \* The key is guessed wrongly, and the script has no block for the other.
    Scene(TChip(1), ForR(2), NoFile, Cos({}, {}), {"service"}),
    \* Nothing to do, though the other firmware file asks for a download.
    [Scene(Chip(2, 2), ForR(2), NoFile, Cos({}, {}), {"open", "service"})
       EXCEPT !.files.plain = ForR(3)],
    \* Both processes: the secure element HAL finds its script, resets the
    \* element during a firmware download, or during the other COS download.
    Scene(Chip(2, 1), NoFile, NoFile, Cos({}, Own), {"service", "ese"}),
    Scene(Chip(1, 1), ForR(2), NoFile, Cos({}, {}), {"service", "ese"}),
    Scene(Chip(InvalidVer, 1), NoFile, NoFile, Cos(Own, {}), {"service", "ese"}) }

\* A chip that is behind, and nothing else to do.
BehindOnly == {Scene(Chip(1, 1), ForR(2), NoFile, Cos({}, {}), {"service"})}
===============================================================================

-------------------------------- MODULE Grub --------------------------------
(***************************************************************************)
(* The boot loader script (skeleton/bootloader/grub.cfg) on the environment*)
(* it shares with RAUC.  It saves the attempt counters before it shows its *)
(* five second menu, and ORDER only when an entry is started, so power may *)
(* fail in between.                                                        *)
(***************************************************************************)
EXTENDS Rauc

VARIABLES
  power,    \* "off", "grub" (menu counting down), "menu" (waiting), "up"
  default   \* the entry started when the countdown ends

grubVars == <<power, default>>

Power == {"off", "grub", "menu", "up"}

TypeOKGrub ==
  /\ power \in Power
  /\ default \in Slot \cup {"none"}
  /\ power = "grub" <=> default \in Slot

Selectable_TwoTries(s) == try[s] < 2 /\ ok[s]  \* mutant: one attempt short
Selectable_AnyTries(s) == ok[s]               \* mutant: attempts are not limited
Selectable(s) == try[s] < 3 /\ ok[s]

(* The first selectable slot of ORDER.                                     *)
GrubChoice ==
  IF Selectable(order) THEN order
  ELSE IF Selectable(Other(order)) THEN Other(order)
  ELSE "none"

(* GRUB has no arithmetic: the counter saturates.                          *)
Increment(n) == IF n = 0 THEN 1 ELSE IF n = 1 THEN 2 ELSE 3

GrubSelects_Unsaved ==   \* mutant: the counters are not saved
  /\ power = "off"
  /\ default' = GrubChoice
  /\ power' = IF GrubChoice = "none" THEN "menu" ELSE "grub"
  /\ UNCHANGED <<booted, order, try, ok, slotVars, installer, completed>>

GrubSelects ==
  /\ power = "off"
  /\ default' = GrubChoice
  /\ IF GrubChoice = "none"
     THEN power' = "menu" /\ UNCHANGED try
     ELSE power' = "grub" /\ try' = [try EXCEPT ![GrubChoice] = Increment(@)]
  /\ UNCHANGED <<booted, order, ok, slotVars, installer, completed>>

(* An entry makes its slot the first of ORDER.  A torn image panics, and   *)
(* panic=3 resets the machine.                                             *)
BootEntry(s) ==
  /\ order' = s
  /\ default' = "none"
  /\ IF image[s] = Torn
     THEN power' = "off" /\ UNCHANGED booted
     ELSE power' = "up" /\ booted' = s
  /\ UNCHANGED <<try, ok, slotVars, installer, completed>>

BootDefault == power = "grub" /\ BootEntry(default)

(* The user interrupts the countdown, or answers the menu.                 *)
BootByHand(s) == power \in {"grub", "menu"} /\ s # default /\ BootEntry(s)
=============================================================================

-------------------------- MODULE StatusfileRecovery --------------------------
(* RAUC's status file on a FAT file system.  glib saves it by way of a       *)
(* temporary file; a power failure in the middle of the rename can leave an  *)
(* empty file and the complete temporary one beside it.  At the next boot    *)
(* recover-from-tmpfile repeats the rename.  Nothing orders it before RAUC.  *)
EXTENDS Naturals, FiniteSetsExt

CONSTANTS
  Slot,
  MaxSaves,   \* bound on the number of saves
  Empty,      \* a file without content
  None

ASSUME StatusAssumption ==
  MaxSaves \in Nat /\ Empty \notin [Slot -> Nat] /\ None \notin [Slot -> Nat]

VARIABLES
  target,      \* status.ini: Empty, or the installation it records for each slot
  temps,       \* the temporary files: birth -> content, later births are newer
  births,      \* how many have been created
  save,        \* where RAUC is in g_file_set_contents; its file is temps[births]
  cache,       \* the status RAUC works with, None before it has read the file
  recovery,    \* where the script is
  replacement, \* its REPLACEMENT
  durable,     \* the installations recorded by saves that have finished
  blank        \* RAUC once began with an empty file, before the script was done

files == <<target, temps, births>>
script == <<recovery, replacement>>
statusVars == <<files, save, cache, script, durable, blank>>

Birth == 1..MaxSaves
Status == [Slot -> 0..MaxSaves]
Nothing == [s \in Slot |-> 0]

TypeOKStatus ==
  /\ target \in Status \cup {Empty}
  /\ births \in 0..MaxSaves /\ DOMAIN temps \subseteq 1..births
  /\ \A b \in DOMAIN temps : temps[b] \in Status \cup {Empty}
  /\ save \in {"idle", "write", "rename", "renaming"}
  /\ cache \in Status \cup {None}
  /\ recovery \in {"start", "list", "replace", "move", "moving", "done"}
  /\ replacement \in Birth \cup {None}
  /\ durable \in Status
  /\ blank \in BOOLEAN

InitStatus ==
  /\ target = Nothing /\ temps = <<>> /\ births = 0
  /\ save = "idle" /\ cache = None
  /\ recovery = "start" /\ replacement = None
  /\ durable = Nothing /\ blank = FALSE

Without(b) == [x \in DOMAIN temps \ {b} |-> temps[x]]

(* To running processes a rename is atomic: none sees the file in between.   *)
Renaming == save = "renaming" \/ recovery = "moving"

------------------------------------------------------------------------------
(* RAUC reads the file once and saves the whole of what it knows.            *)

Load ==
  /\ cache = None /\ ~Renaming
  /\ cache' = IF target = Empty THEN Nothing ELSE target
  /\ blank' = (blank \/ (target = Empty /\ recovery # "done"))
  /\ UNCHANGED <<files, save, script, durable>>

(* Slot s is about to be recorded; the temporary file is there, still empty. *)
Create(s) ==
  /\ save = "idle" /\ cache # None /\ births < MaxSaves
  /\ save' = "write" /\ births' = births + 1
  /\ temps' = [b \in DOMAIN temps \cup {births'} |-> IF b = births' THEN Empty ELSE temps[b]]
  /\ cache' = [cache EXCEPT ![s] = births']
  /\ UNCHANGED <<target, script, durable, blank>>

Write ==
  /\ save = "write" /\ save' = "rename"
  /\ temps' = [temps EXCEPT ![births] = cache]
  /\ UNCHANGED <<target, births, cache, script, durable, blank>>

StartRename ==
  /\ save = "rename" /\ births \in DOMAIN temps /\ ~Renaming
  /\ save' = "renaming" /\ target' = Empty
  /\ UNCHANGED <<temps, births, cache, script, durable, blank>>

Renamed ==
  /\ save = "renaming" /\ save' = "idle"
  /\ target' = temps[births] /\ temps' = Without(births)
  /\ durable' = cache
  /\ UNCHANGED <<births, cache, script, blank>>

(* The script has taken the temporary file away. *)
RenameFails ==
  /\ save = "rename" /\ births \notin DOMAIN temps /\ save' = "idle"
  /\ UNCHANGED <<files, cache, script, durable, blank>>

------------------------------------------------------------------------------
(* recover-from-tmpfile, once at every boot.                                 *)

(* Mutant: the rename is repeated even if the file has content. *)
CheckTarget_Always ==
  /\ recovery = "start" /\ ~Renaming
  /\ recovery' = "list"
  /\ UNCHANGED <<files, save, cache, replacement, durable, blank>>

CheckTarget ==
  /\ recovery = "start" /\ ~Renaming
  /\ recovery' = IF target = Empty THEN "list" ELSE "done"
  /\ UNCHANGED <<files, save, cache, replacement, durable, blank>>

ListCandidates ==
  /\ recovery = "list"
  /\ IF DOMAIN temps = {}
     THEN recovery' = "done" /\ UNCHANGED replacement
     ELSE recovery' = "replace" /\ replacement' = Max(DOMAIN temps)
  /\ UNCHANGED <<files, save, cache, durable, blank>>

(* An empty or vanished replacement is left alone. *)
CheckReplacement ==
  /\ recovery = "replace"
  /\ recovery' = IF replacement \in DOMAIN temps /\ temps[replacement] # Empty
                 THEN "move" ELSE "done"
  /\ UNCHANGED <<files, save, cache, replacement, durable, blank>>

StartMove ==
  /\ recovery = "move" /\ replacement \in DOMAIN temps /\ ~Renaming
  /\ recovery' = "moving" /\ target' = Empty
  /\ UNCHANGED <<temps, births, save, cache, replacement, durable, blank>>

Moved ==
  /\ recovery = "moving" /\ recovery' = "done"
  /\ target' = temps[replacement] /\ temps' = Without(replacement)
  /\ UNCHANGED <<births, save, cache, replacement, durable, blank>>

MoveFails ==
  /\ recovery = "move" /\ replacement \notin DOMAIN temps /\ recovery' = "done"
  /\ UNCHANGED <<files, save, cache, replacement, durable, blank>>

------------------------------------------------------------------------------
PowerFails ==
  /\ save' = "idle" /\ cache' = None
  /\ recovery' = "start" /\ replacement' = None
  /\ UNCHANGED <<files, durable, blank>>

Rauc ==
  \/ Load \/ (\E s \in Slot : Create(s)) \/ Write
  \/ StartRename \/ Renamed \/ RenameFails
Script ==
  \/ CheckTarget \/ ListCandidates \/ CheckReplacement
  \/ StartMove \/ Moved \/ MoveFails
NextStatus == Rauc \/ Script \/ PowerFails

SpecStatus == InitStatus /\ [][NextStatus]_statusVars

------------------------------------------------------------------------------
AtLeast(status) == \A s \in Slot : status[s] >= durable[s]

(* Wherever power fails, even while the script repeats a rename, the result  *)
(* of every finished save is where the next boot looks for it: in the file,  *)
(* or, if that is empty, in the newest temporary file; and in the file once  *)
(* the script is done.                                                       *)
NothingLost ==
  ~blank =>
    IF target # Empty THEN AtLeast(target)
    ELSE /\ recovery = "done" => Renaming
         /\ DOMAIN temps # {}
         /\ temps[Max(DOMAIN temps)] # Empty /\ AtLeast(temps[Max(DOMAIN temps)])

(* The status the next boot can get at.                                      *)
Stored ==
  IF target # Empty THEN target
  ELSE IF DOMAIN temps # {} THEN temps[Max(DOMAIN temps)] ELSE None

Durable == INSTANCE DurableStatus WITH stored <- Stored, known <- cache, spoilt <- blank

(* RAUC and the script keep the status as if a save were atomic: it takes    *)
(* effect when the rename sets in, and whatever fails after that, the next   *)
(* RAUC begins with the status committed last.  The exception: a RAUC that   *)
(* read the empty file before the script was done.                           *)
IsDurable == Durable!SpecDurable
=============================================================================

-------------------------- MODULE PageActionsProofs --------------------------
(* Proofs about the page's actions, for any number of handlers at a time.  *)
EXTENDS PageActions, TLAPS

------------------------------------------------------------------------------
(* The reset.  A marker is either asked for and still to be obeyed, or left *)
(* over by a power failure after the wipe, which then meets no new data,    *)
(* or by a boot that could not mount /boot.                                 *)
MarkerState ==
  /\ power = "off" => marker = synced
  /\ power = "initrd" /\ (stage # "mount" \/ marker) => marker = synced
  /\ power = "initrd" /\ stage \in {"format", "formatting", "remove"} => marker
  /\ power = "initrd" /\ stage = "mount" => ~marker \/ missed

HalfIsMarked ==
  data = "half" /\ ~broken =>
    /\ marker /\ synced
    /\ \/ power = "off"
       \/ power = "initrd" /\ (stage \in {"look", "format", "formatting"}
                              \/ (stage = "mount" /\ missed))

MarkerIsWanted ==
  marker \/ synced => wanted \/ missed \/ (data # "user" /\ power \in {"off", "initrd"})

InvReset ==
  /\ TypeOKReset /\ MarkerState /\ HalfIsMarked /\ MarkerIsWanted
  /\ service # "inactive" => wanted /\ power = "up"

LEMMA InitIsMarked == InitReset => InvReset
BY DEF InitReset, InvReset, TypeOKReset, MarkerState, HalfIsMarked, MarkerIsWanted

LEMMA ResetStep == InvReset /\ [NextReset]_resetVars => InvReset'
<1> SUFFICES ASSUME InvReset, [NextReset]_resetVars PROVE InvReset'
  OBVIOUS
<1> USE DEF InvReset, TypeOKReset, MarkerState, HalfIsMarked, MarkerIsWanted,
            system, boot, disk, history
<1>1. CASE factory_reset   BY <1>1 DEF factory_reset
<1>2. CASE StartWipe       BY <1>2 DEF StartWipe
<1>3. CASE reboot          BY <1>3 DEF reboot
<1>4. CASE Reboot          BY <1>4 DEF Reboot
<1>5. CASE HandlerFails    BY <1>5 DEF HandlerFails
<1>6. CASE StartService    BY <1>6 DEF StartService
<1>7. CASE Touch           BY <1>7 DEF Touch
<1>8. CASE LookForMarker   BY <1>8 DEF LookForMarker
<1>9. CASE StartFormat     BY <1>9 DEF StartFormat
<1>10. CASE Formatted      BY <1>10 DEF Formatted
<1>11. CASE FormatFails    BY <1>11 DEF FormatFails
<1>12. CASE RemoveMarker   BY <1>12 DEF RemoveMarker
<1>13. CASE Mount          BY <1>13 DEF Mount
<1>14. CASE Sync           BY <1>14 DEF Sync
<1>15. CASE ShutDown       BY <1>15 DEF ShutDown
<1>16. CASE PowerFails     BY <1>16 DEF PowerFails
<1>17. CASE SaveData       BY <1>17 DEF SaveData
<1>18. CASE PowerOn        BY <1>18 DEF PowerOn
<1>19. CASE UNCHANGED resetVars  BY <1>19 DEF resetVars
<1>20. CASE BootIsMissing  BY <1>20 DEF BootIsMissing
<1>21. CASE ServiceFails   BY <1>21 DEF ServiceFails
<1> QED
  BY <1>1, <1>2, <1>3, <1>4, <1>5, <1>6, <1>7, <1>8, <1>9, <1>10, <1>11, <1>12, <1>13,
     <1>14, <1>15, <1>16, <1>17, <1>18, <1>19, <1>20, <1>21
     DEF NextReset, Controller, Service, Initrd

(* Only formatting takes data away, and it follows a marker.               *)
LEMMA FormatIsWanted ==
  InvReset /\ [NextReset]_resetVars => (data = "user" /\ data' # "user" => wanted \/ missed)
<1> SUFFICES ASSUME InvReset, [NextReset]_resetVars, data = "user", data' # "user"
             PROVE  wanted \/ missed
  OBVIOUS
<1>1. StartFormat \/ Formatted
  BY DEF NextReset, Controller, Service, Initrd, resetVars, system, boot, disk, history,
         factory_reset, StartWipe, reboot, Reboot, HandlerFails, StartService, Touch,
         ServiceFails, BootIsMissing, LookForMarker, FormatFails, RemoveMarker, Mount, Sync, ShutDown, PowerFails,
         SaveData, PowerOn
<1> QED
  BY <1>1 DEF StartFormat, Formatted, InvReset, MarkerState, MarkerIsWanted

(* A marker on the disk stays there, and in the running system's view of    *)
(* it, until the wipe it stands for is done or has failed.                  *)
InvPromise ==
  /\ synced /\ wanted /\ ~broken => marker
  /\ power \in {"up", "down"} /\ synced => marker
  /\ power = "initrd" /\ stage = "remove" => ~wanted \/ broken

LEMMA InitPromise == InitReset => InvPromise
BY DEF InitReset, InvPromise

LEMMA PromiseStep == InvReset /\ InvPromise /\ [NextReset]_resetVars => InvPromise'
<1> SUFFICES ASSUME InvReset, InvPromise, [NextReset]_resetVars PROVE InvPromise'
  OBVIOUS
<1> USE DEF InvReset, TypeOKReset, MarkerState, InvPromise, system, boot, disk, history
<1>1. CASE Controller
  BY <1>1 DEF Controller, factory_reset, StartWipe, reboot, Reboot, HandlerFails
<1>2. CASE Service
  BY <1>2 DEF Service, StartService, Touch, ServiceFails
<1>3. CASE LookForMarker \/ BootIsMissing \/ StartFormat \/ Formatted \/ FormatFails
  BY <1>3 DEF LookForMarker, BootIsMissing, StartFormat, Formatted, FormatFails
<1>4. CASE RemoveMarker \/ Mount
  BY <1>4 DEF RemoveMarker, Mount
<1>5. CASE Sync \/ ShutDown \/ PowerFails \/ PowerOn
  BY <1>5 DEF Sync, ShutDown, PowerFails, PowerOn
<1>6. CASE SaveData \/ UNCHANGED resetVars
  BY <1>6 DEF SaveData, resetVars
<1> QED
  BY <1>1, <1>2, <1>3, <1>4, <1>5, <1>6 DEF NextReset, Initrd

(* Only writing back, a shutdown or the end of the initial ramdisk take the *)
(* marker off the disk, and by then the wipe is done.                       *)
LEMMA MarkerGoesAfterwards ==
  InvReset /\ InvPromise /\ [NextReset]_resetVars =>
    /\ synced /\ ~synced' => broken \/ (~wanted /\ data # "half")
    /\ power = "initrd" /\ power' = "up" /\ marker => missed
<1> SUFFICES ASSUME InvReset, InvPromise, [NextReset]_resetVars
             PROVE  /\ synced /\ ~synced' => broken \/ (~wanted /\ data # "half")
                    /\ power = "initrd" /\ power' = "up" /\ marker => missed
  OBVIOUS
<1>1. CASE Sync \/ ShutDown
  BY <1>1 DEF Sync, ShutDown, InvReset, HalfIsMarked, InvPromise, system
<1>2. CASE Mount
  BY <1>2 DEF Mount, InvReset, MarkerState, InvPromise
<1>3. CASE ~(Sync \/ ShutDown \/ Mount)
  <2>1. synced' = synced /\ ~(power = "initrd" /\ power' = "up")
    BY <1>3 DEF NextReset, Controller, Service, Initrd, resetVars, system, boot, disk,
           factory_reset, StartWipe, reboot, Reboot, HandlerFails, StartService, Touch,
           ServiceFails, BootIsMissing, LookForMarker, StartFormat, Formatted, FormatFails,
           RemoveMarker, PowerFails, SaveData, PowerOn
  <2> QED
    BY <2>1
<1> QED
  BY <1>1, <1>2, <1>3

------------------------------------------------------------------------------
(* The switch.  While no handler has failed or met another, at most one is  *)
(* under way, and what it has done so far is what its place says.           *)
At(r) ==
  /\ place[r] = "unlink" => disabled
  /\ place[r] = "start"  => ~disabled
  /\ place[r] = "mark"   => job = "stop" \/ (job = "none" /\ unit = "stopped")

Settled ==
  /\ job = "stop" => disabled
  /\ job # "stop" /\ unit = "running" => ~disabled
  /\ job = "none" /\ unit = "stopped" => disabled

InvSwitch ==
  /\ TypeOKSwitch
  /\ undisturbed =>
       /\ \A r, q \in Request : place[r] # "idle" /\ place[q] # "idle" => r = q
       /\ \A r \in Request : At(r)
       /\ Idle => Settled

LEMMA HandlerStepKeeps == InvSwitch /\ HandlerStep => InvSwitch'
<1> SUFFICES ASSUME InvSwitch, NEW r \in Request,
                    \/ enable(r) \/ Unlink(r) \/ StartUnit(r)
                    \/ disable(r) \/ StopUnit(r) \/ WriteMarker(r) \/ Fails(r)
             PROVE  InvSwitch'
  BY DEF HandlerStep
<1> USE DEF InvSwitch, TypeOKSwitch, At, Settled, Idle, Goto, Begin
<1>1. CASE enable(r)       BY <1>1 DEF enable
<1>2. CASE Unlink(r)       BY <1>2 DEF Unlink
<1>3. CASE StartUnit(r)    BY <1>3 DEF StartUnit
<1>4. CASE disable(r)      BY <1>4 DEF disable
<1>5. CASE StopUnit(r)     BY <1>5 DEF StopUnit
<1>6. CASE WriteMarker(r)  BY <1>6 DEF WriteMarker
<1>7. CASE Fails(r)        BY <1>7 DEF Fails
<1> QED
  BY <1>1, <1>2, <1>3, <1>4, <1>5, <1>6, <1>7

LEMMA SwitchStepKeeps == InvSwitch /\ SwitchStep => InvSwitch'
<1> SUFFICES ASSUME InvSwitch, SwitchStep PROVE InvSwitch'
  OBVIOUS
<1> USE DEF InvSwitch, TypeOKSwitch, At, Settled, Idle, handlers, CondStart
<1>1. CASE RunStart     BY <1>1 DEF RunStart
<1>2. CASE RunStop      BY <1>2 DEF RunStop
<1>3. CASE UnitDies     BY <1>3 DEF UnitDies
<1>4. CASE AutoRestart  BY <1>4 DEF AutoRestart
<1> QED
  BY <1>1, <1>2, <1>3, <1>4 DEF SwitchStep

------------------------------------------------------------------------------
(* Together: a machine that is not up has neither handlers nor jobs.        *)
Quiet == power # "up" => Idle /\ job = "none" /\ ~undisturbed

InvPage == InvReset /\ InvSwitch /\ Quiet

LEMMA InitInvPage == InitPage => InvPage
<1> SUFFICES ASSUME InitPage PROVE InvPage
  OBVIOUS
<1>1. InvReset
  BY InitIsMarked DEF InitPage
<1>2. InvSwitch /\ Quiet
  BY DEF InitPage, InitReset, InvSwitch, TypeOKSwitch, Quiet, Idle
<1> QED
  BY <1>1, <1>2 DEF InvPage

(* Every step of the page is one of the reset, or none.                     *)
LEMMA PageIsReset == [NextPage]_pageVars => [NextReset]_resetVars
BY DEF NextPage, PageSteady, GoesDown, Wiped, ComesBack, Switches, UnitMoves, pageVars,
       NextReset, Controller, Service, Initrd

LEMMA PageStep == InvPage /\ [NextPage]_pageVars => InvPage'
<1> SUFFICES ASSUME InvPage, [NextPage]_pageVars PROVE InvPage'
  OBVIOUS
<1>1. InvReset'
  BY PageIsReset, ResetStep DEF InvPage
<1>2. UNCHANGED switchVars => InvSwitch'
  BY DEF InvPage, InvSwitch, TypeOKSwitch, At, Settled, Idle, switchVars, handlers
<1>3. CASE PageSteady
  <2>1. power = "up" => power' = "up"
    BY <1>3 DEF PageSteady, InvPage, InvReset, TypeOKReset, system, Service,
       factory_reset, StartWipe, reboot, HandlerFails, StartService, Touch, ServiceFails,
       BootIsMissing, Sync, ShutDown, PowerOn, SaveData, LookForMarker, StartFormat,
       FormatFails, RemoveMarker
  <2>2. Quiet'
    BY <1>3, <2>1 DEF PageSteady, InvPage, Quiet, Idle, switchVars, handlers
  <2> QED
    BY <1>1, <1>2, <1>3, <2>2 DEF PageSteady, InvPage
<1>4. CASE GoesDown
  <2>1. InvSwitch'
    BY <1>4 DEF GoesDown, SwitchEnds, InvPage, InvSwitch, TypeOKSwitch
  <2>2. Quiet'
    BY <1>4 DEF GoesDown, SwitchEnds, Quiet, Idle
  <2> QED
    BY <1>1, <2>1, <2>2 DEF InvPage
<1>5. CASE Wiped
  <2>1. ~undisturbed /\ power = "initrd" /\ power' = power
    BY <1>5 DEF Wiped, Formatted, InvPage, Quiet, system
  <2>2. InvSwitch' /\ Quiet'
    BY <1>5, <2>1 DEF Wiped, InvPage, InvSwitch, TypeOKSwitch, Quiet, Idle, handlers
  <2> QED
    BY <1>1, <2>2 DEF InvPage
<1>6. CASE ComesBack
  <2>1. Idle /\ job = "none" /\ power' = "up"
    BY <1>6 DEF ComesBack, Mount, InvPage, Quiet
  <2>2. InvSwitch' /\ Quiet'
    BY <1>6, <2>1 DEF ComesBack, SwitchBoots, CondStart, InvPage, InvSwitch, TypeOKSwitch,
                      At, Settled, Quiet, Idle
  <2> QED
    BY <1>1, <2>2 DEF InvPage
<1>7. CASE Switches
  <2>1. InvSwitch'
    BY <1>7, HandlerStepKeeps DEF Switches, InvPage
  <2>2. power' = "up"
    BY <1>7 DEF Switches, SaveData, resetVars, system
  <2> QED
    BY <1>1, <2>1, <2>2 DEF InvPage, Quiet
<1>8. CASE UnitMoves
  <2>1. InvSwitch'
    BY <1>8, SwitchStepKeeps DEF UnitMoves, InvPage
  <2>2. power' = "up"
    BY <1>8 DEF UnitMoves, resetVars, system
  <2> QED
    BY <1>1, <2>1, <2>2 DEF InvPage, Quiet
<1>9. CASE UNCHANGED pageVars
  BY <1>1, <1>2, <1>9 DEF pageVars, InvPage, Quiet, Idle, switchVars, handlers, resetVars, system
<1> QED
  BY <1>3, <1>4, <1>5, <1>6, <1>7, <1>8, <1>9 DEF NextPage

------------------------------------------------------------------------------
(* The inductive invariant of the page, on every machine.                   *)
THEOREM PageInductive == SpecPage => []InvPage
BY InitInvPage, PageStep, PTL DEF SpecPage

(* The page does nothing to the disks and the power that the reset alone    *)
(* could not do: saving the marker of the watchdog is saving data.          *)
THEOREM PageImplementsReset == SpecPage => SpecReset
<1>1. InitPage => InitReset
  BY DEF InitPage
<1> QED
  BY <1>1, PageIsReset, PTL DEF SpecPage, SpecReset

(* The types of the reset and of the switch.                                *)
THEOREM TypeCorrectPage == SpecPage => [](TypeOKReset /\ TypeOKSwitch)
<1>1. InvPage => TypeOKReset /\ TypeOKSwitch
  BY DEF InvPage, InvReset, InvSwitch
<1> QED
  BY <1>1, PageInductive, PTL

(* However many handlers run at a time and whatever goes wrong in them, one *)
(* that runs alone brings the marker and the unit together again.           *)
THEOREM SwitchIsHonest == SpecPage => []SwitchTakesEffect
<1>1. InvPage => SwitchTakesEffect
  BY DEF InvPage, InvSwitch, TypeOKSwitch, Settled, SwitchTakesEffect
<1> QED
  BY <1>1, PageInductive, PTL

(* A wipe that was broken off is done again at the next boot.               *)
THEOREM WipeIsRedone == SpecPage => []InterruptedWipeIsRedone
<1>1. InvPage => InterruptedWipeIsRedone
  BY DEF InvPage, InvReset, HalfIsMarked, InterruptedWipeIsRedone
<1> QED
  BY <1>1, PageInductive, PTL

(* Nothing is wiped that was saved after the last request, unless its       *)
(* marker was missed.                                                       *)
THEOREM WipesAreAsked == SpecPage => OneWipePerRequest
<1>1. InvPage /\ [NextPage]_pageVars =>
        [data = "user" /\ data' # "user" => wanted \/ missed]_resetVars
  BY PageIsReset, FormatIsWanted DEF InvPage
<1> QED
  BY <1>1, PageInductive, PTL DEF SpecPage, OneWipePerRequest

(* A marker that has reached the disk is not lost before the wipe is done,  *)
(* and only a boot that misses /boot comes up in spite of it.               *)
THEOREM PromiseIsKept == SpecPage => PromisedWipeIsDone
<1>1. InitPage => InvPromise
  BY InitPromise DEF InitPage
<1>2. InvPage /\ InvPromise /\ [NextPage]_pageVars => InvPromise'
  BY PageIsReset, PromiseStep DEF InvPage
<1>3. SpecPage => []InvPromise
  BY <1>1, <1>2, PageInductive, PTL DEF SpecPage
<1>4. InvPage /\ InvPromise /\ [NextPage]_pageVars =>
        [/\ synced /\ ~synced' => broken \/ (~wanted /\ data # "half")
         /\ power = "initrd" /\ power' = "up" /\ marker => missed]_resetVars
  BY PageIsReset, MarkerGoesAfterwards DEF InvPage
<1> QED
  BY <1>3, <1>4, PageInductive, PTL DEF SpecPage, PromisedWipeIsDone
=============================================================================

-------------------------- MODULE MCJtagLiveness --------------------------
(* What must eventually happen, in three scenes: no host, while the system   *)
(* clock ticks; a host that sends, takes and pauses, main reading without    *)
(* blocking; the firmware after main took timer 0, its host sending nothing. *)
EXTENDS MCTimerTakeover

VARIABLE scene
sceneVars == <<sysVars, scene>>

LiveInit == SysInit /\ scene \in {"absent", "served", "firmware"}

Absent == Calls \/ AppStep \/ IsrEnter \/ IsrStep \/ Timeout

Served == \/ \E s \in Spaces : ReadCall(s, TRUE)
          \/ AppStep \/ IsrEnter \/ IsrStep \/ HostStep

LiveNext ==
    /\ \/ scene = "absent" /\ Absent /\ UNCHANGED timer0Isr
       \/ scene = "served" /\ Served /\ UNCHANGED timer0Isr
       \/ scene = "firmware" /\ SysNext /\ rfifo' = <<>>
    /\ UNCHANGED scene

(* The alarm that counts the host's absence runs where the system clock does; *)
(* a host keeps taking and pausing.                                           *)
LiveSpec ==
    /\ LiveInit /\ [][LiveNext]_sceneVars
    /\ CpuFairness
    /\ WF_vars(scene = "absent" /\ Timeout)
    /\ WF_vars(scene # "absent" /\ HostTake /\ UNCHANGED driverVars)
    /\ WF_vars(scene # "absent" /\ HostPause /\ UNCHANGED driverVars)

(* Where there is a host, every byte write() accepted reaches it: the driver *)
(* keeps the fairness of the abstract channel.                               *)
Delivery == scene # "absent" => Channel!Delivery
===========================================================================

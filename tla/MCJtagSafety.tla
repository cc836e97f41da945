--------------------------- MODULE MCJtagSafety ---------------------------
(* The driver in three scenes, one of which every behaviour keeps to: main   *)
(* writes, closes and sets timeouts; main reads; both directions at once,    *)
(* without blocking and with the alarm at rest.                              *)
EXTENDS MCJtagUart

VARIABLE scene
sceneVars == <<vars, scene>>

SceneInit == Init /\ scene \in {"write", "read", "both"}

Write == (\E m \in FewMessages, nb \in BOOLEAN : WriteCall(m, nb))
         \/ (\E nb \in BOOLEAN : CloseCall(nb)) \/ (\E t \in {0} : SetTimeout(t))
         \/ Timeout \/ (HostTake /\ UNCHANGED driverVars)

Read == (\E s \in {0, 2}, nb \in BOOLEAN : ReadCall(s, nb))
        \/ (\E c \in Char : HostSend(c) /\ UNCHANGED driverVars) \/ Timeout

Both == WriteCall(<<b>>, TRUE) \/ ReadCall(1, TRUE)
        \/ ((HostSend(a) \/ HostTake) /\ UNCHANGED driverVars)

SceneNext ==
    /\ \/ scene = "write" /\ Write
       \/ scene = "read" /\ Read
       \/ scene = "both" /\ Both
       \/ AppStep \/ IsrEnter \/ IsrStep
       \/ HostPause /\ UNCHANGED driverVars
    /\ scene = "both" => \A i \in 1..Len(rfifo') : rfifo'[i] = a
    /\ UNCHANGED scene

SceneSpec == SceneInit /\ [][SceneNext]_sceneVars
===========================================================================

---------------------------- MODULE MCManagers ----------------------------
(* Model checking DbManager and MultiApp.  One manager of a database with    *)
(* its prober: a master and two replicas, and as many pools as a rebuild and *)
(* a prober that lags behind can hold.  And the Apps that swap such managers *)
(* in and out: three, so that one can be started while another fails and a   *)
(* third is running.  The two share no state: a behaviour is of one of them. *)
EXTENDS DbManager, MultiApp

CONSTANT MaxMoving  \* how many Apps start or stop at once (bound)

VARIABLE several    \* whether the behaviour is of the Apps

managersVars == <<several, vars, appsVars>>

(* The Apps are alike and each starts once: they start in their order.       *)
InTurn == \A a, b \in Apps : a < b /\ phase'[b] # "new" => phase'[a] # "new"
FewAtOnce == Cardinality({a \in Apps : phase'[a] \notin Settled}) <= MaxMoving

ManagersInit == several \in BOOLEAN /\ Init /\ AppsInit

ManagersNext ==
    /\ UNCHANGED several
    /\ \/ ~ several /\ Next /\ UNCHANGED appsVars
       \/ several /\ AppsNext /\ InTurn /\ FewAtOnce /\ UNCHANGED vars

ManagersSpec == ManagersInit /\ [][ManagersNext]_managersVars /\ Fairness
=============================================================================

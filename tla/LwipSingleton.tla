---------------------------- MODULE LwipSingleton ---------------------------
(***************************************************************************)
(* The life cycle of lwIP devices: ConfigureDevice (and its twin           *)
(* ConfigureDeviceWithRelay), which closes the device configured before    *)
(* and makes a new one under instMu, against Close calls of the users of a *)
(* device, which take no lock.                                             *)
(*                                                                         *)
(* Close is three steps: the select that tests d.done, close(d.done) and   *)
(* stack.Close().  Closing a closed channel panics and ends the program.   *)
(* A device is named after the call that configures it.                    *)
(***************************************************************************)
EXTENDS FiniteSets, Integers

CONSTANTS Configs,   \* ConfigureDevice calls
          Users    \* Close calls of the users

NoDevice == "none"
ASSUME NoDeviceAssumption == NoDevice \notin Configs

ASSUME DistinctCalls == Configs \cap Users = {}

VARIABLES instMu,    \* holder of instMu
          inst,      \* the singleton
          doneOf,      \* d.done of each device: none, open, closed
          stackOf,     \* d.stack of each device: none, open, closed
          outputFn,  \* device whose forwardOutgoingIPPacket is registered
          program,   \* running, or panicked
          pc,        \* the ConfigureDevice and the Close calls
          dev        \* the device each call closes

singletonVars == <<instMu, inst, doneOf, stackOf, outputFn, program, pc, dev>>

Calls == Configs \cup Users

(* test, closeDone and closeStack are the three steps of Close.            *)
States == {"idle", "test", "closeDone", "closeStack", "create", "register", "returned"}

SingletonTypeOK == /\ instMu \in Configs \cup {NoDevice}
                   /\ inst \in Configs \cup {NoDevice}
                   /\ doneOf \in [Configs -> {"none", "open", "closed"}]
                   /\ stackOf \in [Configs -> {"none", "open", "closed"}]
                   /\ outputFn \in Configs \cup {NoDevice}
                   /\ program \in {"running", "panicked"}
                   /\ pc \in [Calls -> States]
                   /\ dev \in [Calls -> Configs \cup {NoDevice}]
                   /\ \A c \in Configs : doneOf[c] = "none" <=> stackOf[c] = "none"

SingletonInit == /\ instMu = NoDevice
                 /\ inst = NoDevice
                 /\ doneOf = [c \in Configs |-> "none"]
                 /\ stackOf = [c \in Configs |-> "none"]
                 /\ outputFn = NoDevice
                 /\ program = "running"
                 /\ pc = [g \in Calls |-> "idle"]
                 /\ dev = [g \in Calls |-> NoDevice]

-----------------------------------------------------------------------------
(* Close on dev[g], by its user or by a ConfigureDevice call, which then   *)
(* goes on to make the new device.                                         *)
GoOn(g, s) == pc' = [pc EXCEPT ![g] = s]
AfterClose(g) == IF g \in Configs THEN "create" ELSE "returned"

(* Variant of Close that closes the stack and forgets d.done.              *)
CloseTestSkipsDone(g) ==
    /\ pc[g] = "test"
    /\ GoOn(g, IF doneOf[dev[g]] = "closed" THEN AfterClose(g) ELSE "closeStack")
    /\ UNCHANGED <<instMu, inst, doneOf, stackOf, outputFn, program, dev>>

(* The select: return if done is closed.                                   *)
CloseTest(g) ==
    /\ pc[g] = "test"
    /\ GoOn(g, IF doneOf[dev[g]] = "closed" THEN AfterClose(g) ELSE "closeDone")
    /\ UNCHANGED <<instMu, inst, doneOf, stackOf, outputFn, program, dev>>

(* close(d.done)                                                           *)
CloseDoneOf(g) ==
    /\ pc[g] = "closeDone"
    /\ program' = IF doneOf[dev[g]] = "closed" THEN "panicked" ELSE program
    /\ doneOf' = [doneOf EXCEPT ![dev[g]] = "closed"]
    /\ GoOn(g, "closeStack")
    /\ UNCHANGED <<instMu, inst, stackOf, outputFn, dev>>

(* d.stack.Close()                                                         *)
CloseStackOf(g) ==
    /\ pc[g] = "closeStack"
    /\ stackOf' = [stackOf EXCEPT ![dev[g]] = "closed"]
    /\ GoOn(g, AfterClose(g))
    /\ UNCHANGED <<instMu, inst, doneOf, outputFn, program, dev>>

-----------------------------------------------------------------------------
(* Variant of ConfigureDevice that does not close the device before it.    *)
ConfigureKeepsOld(c) ==
    /\ pc[c] = "idle"
    /\ instMu = NoDevice
    /\ instMu' = c
    /\ GoOn(c, "create")
    /\ UNCHANGED <<inst, doneOf, stackOf, outputFn, program, dev>>

(* ConfigureDevice takes instMu and goes on to close the device configured *)
(* before, if there is one.                                                *)
Configure(c) ==
    /\ pc[c] = "idle"
    /\ instMu = NoDevice
    /\ instMu' = c
    /\ dev' = [dev EXCEPT ![c] = inst]
    /\ GoOn(c, IF inst = NoDevice THEN "create" ELSE "test")
    /\ UNCHANGED <<inst, doneOf, stackOf, outputFn, program>>

(* lwip.NewLWIPStack() and the new device.                                 *)
Create(c) ==
    /\ pc[c] = "create"
    /\ inst' = c
    /\ doneOf' = [doneOf EXCEPT ![c] = "open"]
    /\ stackOf' = [stackOf EXCEPT ![c] = "open"]
    /\ GoOn(c, "register")
    /\ UNCHANGED <<instMu, outputFn, program, dev>>

(* The handlers are registered and instMu is released.                     *)
RegisterHandlers(c) ==
    /\ pc[c] = "register"
    /\ outputFn' = c
    /\ instMu' = NoDevice
    /\ GoOn(c, "returned")
    /\ UNCHANGED <<inst, doneOf, stackOf, program, dev>>

(* A user calls Close on a device that ConfigureDevice has returned.       *)
CallClose(k) ==
    /\ pc[k] = "idle"
    /\ \E c \in Configs : /\ pc[c] = "returned"
                          /\ dev' = [dev EXCEPT ![k] = c]
    /\ GoOn(k, "test")
    /\ UNCHANGED <<instMu, inst, doneOf, stackOf, outputFn, program>>

CloseStep(g) == CloseTest(g) \/ CloseDoneOf(g) \/ CloseStackOf(g)

SingletonNext == /\ program = "running"
                 /\ \/ \E c \in Configs : Configure(c) \/ Create(c) \/ RegisterHandlers(c)
                    \/ \E k \in Users : CallClose(k)
                    \/ \E g \in Calls : CloseStep(g)

SingletonSpec == SingletonInit /\ [][SingletonNext]_singletonVars

-----------------------------------------------------------------------------
(* While nobody reconfigures, the singleton is the only device a packet    *)
(* can go through: it is the one the stack's output goes to, and every     *)
(* device configured before it has been closed.                            *)
OnlyInstUsable ==
    instMu = NoDevice => /\ outputFn = inst
                         /\ \A c \in Configs : doneOf[c] = "open" => c = inst

(* The stack of a device is closed only after its done channel, so that    *)
(* nobody blocks on a device whose stack is gone, and by one goroutine.    *)
StackClosedAfterDone ==
    /\ \A c \in Configs : stackOf[c] = "closed" => doneOf[c] = "closed"
    /\ program = "running" =>
         \A c \in Configs :
           Cardinality({g \in Calls : dev[g] = c /\ pc[g] = "closeStack"}) <= 1

(* Over any number of reconfigurations the devices follow one another.     *)
DevicesDoNotOverlap == OnlyInstUsable /\ StackClosedAfterDone

(* "make sure we don't close the channel twice": the select of Close is    *)
(* meant to prevent it.                                                    *)
NoPanic == program = "running"

=============================================================================

---------------------------- MODULE DnsttSession ----------------------------
(***************************************************************************)
(* x/dnstt/dnstt.go: one multiplexed session shared by all DialStream      *)
(* calls, dialled on demand outside the lock, while other calls may dial   *)
(* another one, cancel, find the session dead, or close the dialer.        *)
(* A session holds four parts (the DNS transport, the packet conn, the KCP *)
(* conn, the smux session); a smux session is alive while its part is open. *)
(***************************************************************************)
EXTENDS Naturals

CONSTANTS Callers,       \* DialStream calls; c also names the session call c dials
          MaxCloses,     \* bound: calls of Close
          Nil

ASSUME MaxClosesAssumption == MaxCloses \in Nat
ASSUME NilAssumption == Nil \notin Callers

VARIABLES cur,           \* d.sess
          closeFns,      \* the sessions whose close functions d.closeFns has
          res,           \* the open parts of each session
          dial,          \* dialSession: stage it has reached, "none", "done", "failed"
          reaper,        \* sessions whose dial was given up, with a goroutine waiting
          call,          \* the DialStream calls: pc, session used
          cancelled,     \* calls whose context has ended
          forgotten,     \* sessions that OpenStream failed on
          closes         \* Close calls made

sessVars == <<cur, closeFns, res, dial, reaper, call, cancelled, forgotten, closes>>

(* The stages of dialSession and the parts each of them opens; a stage     *)
(* includes the checks up to the next opening (domain and MTU, handshake).  *)
Opens == [transport |-> {"transport", "pconn"}, kcp |-> {"kcp"}, smux |-> {"smux"}]
Stages == {"transport", "kcp", "smux"}
Following == [transport |-> "kcp", kcp |-> "smux", smux |-> "done"]
Parts == {"transport", "pconn", "kcp", "smux"}
Alive(s) == s # Nil /\ "smux" \in res[s]

SessInit == /\ cur = Nil
            /\ closeFns = {}
            /\ res = [s \in Callers |-> {}]
            /\ dial = [s \in Callers |-> "none"]
            /\ reaper = {}
            /\ call = [c \in Callers |-> [pc |-> "session", sess |-> Nil]]
            /\ cancelled = {}
            /\ forgotten = {}
            /\ closes = 0

Step(c, pc) == call[c].pc = pc
Goto(c, pc, s) == call' = [call EXCEPT ![c].pc = pc, ![c].sess = s]
CloseSmux(s) == [res EXCEPT ![s] = @ \ {"smux"}]
CloseAll(S) == [s \in Callers |-> IF s \in S THEN {} ELSE res[s]]

-----------------------------------------------------------------------------
(* session(): the live session, or a dial of a new one after dropping the  *)
(* dead one.                                                               *)
Session(c) ==
    /\ Step(c, "session")
    /\ IF Alive(cur)
       THEN Goto(c, "open", cur) /\ UNCHANGED <<cur, res, dial>>
       ELSE /\ dial' = [dial EXCEPT ![c] = "transport"]
            /\ cur' = Nil
            /\ res' = IF cur = Nil THEN res ELSE CloseSmux(cur)
            /\ Goto(c, "wait", Nil)
    /\ UNCHANGED <<closeFns, reaper, cancelled, forgotten, closes>>

(* dialSession: every stage may fail, and then closes what is open so far. *)
DialStep(s) ==
    /\ dial[s] \in Stages
    /\ \/ /\ res' = [res EXCEPT ![s] = @ \cup Opens[dial[s]]]
          /\ dial' = [dial EXCEPT ![s] = Following[@]]
       \/ /\ res' = [res EXCEPT ![s] = {}]
          /\ dial' = [dial EXCEPT ![s] = "failed"]
    /\ UNCHANGED <<cur, closeFns, reaper, call, cancelled, forgotten, closes>>

(* The select of session(): the context first, or the result.              *)
GiveUp(c) ==
    /\ Step(c, "wait") /\ c \in cancelled
    /\ reaper' = reaper \cup {c}
    /\ Goto(c, "failed", Nil)
    /\ UNCHANGED <<cur, closeFns, res, dial, cancelled, forgotten, closes>>

TakeResult(c) ==
    /\ Step(c, "wait") /\ dial[c] \in {"done", "failed"}
    /\ Goto(c, IF dial[c] = "done" THEN "install" ELSE "failed", Nil)
    /\ UNCHANGED <<cur, closeFns, res, dial, reaper, cancelled, forgotten, closes>>

(* Variant: the late session is closed, its transports are not.            *)
ReapSessionOnly(s) ==
    /\ s \in reaper /\ dial[s] \in {"done", "failed"}
    /\ reaper' = reaper \ {s}
    /\ res' = CloseSmux(s)
    /\ UNCHANGED <<cur, closeFns, dial, call, cancelled, forgotten, closes>>

(* The goroutine left behind by GiveUp: it waits for the late session.     *)
Reap(s) ==
    /\ s \in reaper /\ dial[s] \in {"done", "failed"}
    /\ reaper' = reaper \ {s}
    /\ res' = CloseAll({s})
    /\ UNCHANGED <<cur, closeFns, dial, call, cancelled, forgotten, closes>>

(* Variant: the dialled session is installed whoever won.                  *)
InstallAlways(c) ==
    /\ Step(c, "install")
    /\ cur' = c
    /\ closeFns' = closeFns \cup {c}
    /\ Goto(c, "open", c)
    /\ UNCHANGED <<res, dial, reaper, cancelled, forgotten, closes>>

(* Under the lock again: another call may have installed a live session    *)
(* meanwhile, and then that one is used.                                   *)
Install(c) ==
    /\ Step(c, "install")
    /\ IF Alive(cur)
       THEN Goto(c, "discard", cur) /\ UNCHANGED <<cur, closeFns>>
       ELSE /\ cur' = c
            /\ closeFns' = closeFns \cup {c}
            /\ Goto(c, "open", c)
    /\ UNCHANGED <<res, dial, reaper, cancelled, forgotten, closes>>

Discard(c) ==
    /\ Step(c, "discard")
    /\ res' = CloseAll({c})
    /\ call' = [call EXCEPT ![c].pc = "open"]
    /\ UNCHANGED <<cur, closeFns, dial, reaper, cancelled, forgotten, closes>>

(* DialStream: a stream of the session, which may have died meanwhile.     *)
OpenStream(c) ==
    /\ Step(c, "open")
    /\ \/ /\ Alive(call[c].sess)
          /\ Goto(c, "stream", call[c].sess)
          /\ UNCHANGED <<cur, forgotten>>
       \/ /\ cur' = IF cur = call[c].sess THEN Nil ELSE cur
          /\ forgotten' = forgotten \cup {call[c].sess}
          /\ Goto(c, "failed", Nil)
    /\ UNCHANGED <<closeFns, res, dial, reaper, cancelled, closes>>

(* Close: one critical section over the session and all close functions.   *)
Close ==
    /\ closes < MaxCloses
    /\ closes' = closes + 1
    /\ res' = CloseAll(closeFns \cup ({cur} \ {Nil}))
    /\ cur' = Nil
    /\ closeFns' = {}
    /\ UNCHANGED <<dial, reaper, call, cancelled, forgotten>>

(* The tunnel breaks: smux closes its session, nothing else is closed.     *)
Die(s) ==
    /\ dial[s] = "done" /\ Alive(s)
    /\ res' = CloseSmux(s)
    /\ UNCHANGED <<cur, closeFns, dial, reaper, call, cancelled, forgotten, closes>>

Cancel(c) ==
    /\ call[c].pc \in {"session", "wait"}
    /\ c \notin cancelled
    /\ cancelled' = cancelled \cup {c}
    /\ UNCHANGED <<cur, closeFns, res, dial, reaper, call, forgotten, closes>>

CallStep(c) == Session(c) \/ GiveUp(c) \/ TakeResult(c) \/ Install(c) \/ Discard(c) \/ OpenStream(c)

SessNext == \/ \E c \in Callers : CallStep(c) \/ Cancel(c)
            \/ \E s \in Callers : DialStep(s) \/ Reap(s) \/ Die(s)
            \/ Close

SessSpec == SessInit /\ [][SessNext]_sessVars

-----------------------------------------------------------------------------
SessTypeOK == /\ cur \in Callers \cup {Nil}
              /\ closeFns \subseteq Callers
              /\ res \in [Callers -> SUBSET Parts]
              /\ dial \in [Callers -> Stages \cup {"none", "done", "failed"}]
              /\ reaper \subseteq Callers
              /\ call \in [Callers -> [pc : {"session", "wait", "install", "discard", "open",
                                            "stream", "failed"},
                                      sess : Callers \cup {Nil}]]
              /\ cancelled \subseteq Callers
              /\ forgotten \subseteq Callers
              /\ closes \in 0..MaxCloses

(* Whatever a session has open, somebody will close it: the dial that is   *)
(* still running, the call that waits for it, the goroutine that reaps it, *)
(* or Close through d.closeFns.  d.sess is always among the latter.        *)
InHand(s) == call[s].pc \in {"wait", "install", "discard"}
PartsHaveOwner ==
    /\ cur # Nil => cur \in closeFns
    /\ \A s \in Callers :
         /\ res[s] # {} => (s \in closeFns \/ s \in reaper \/ InHand(s))
         /\ dial[s] = "failed" => res[s] = {}

(* Overlapping dials leave one live session to be shared: any other one    *)
(* that was installed is dead, unless OpenStream had failed on it.         *)
OneLiveSession ==
    \A s \in closeFns : Alive(s) => s = cur \/ s \in forgotten
=============================================================================

------------------------------- MODULE SysProxy -------------------------------
(*****************************************************************************)
(* Setting and disabling the proxy of the desktop (src/x/sysproxy): macOS    *)
(* with networksetup, GNOME with gsettings, Windows with the registry. A     *)
(* call is a row of commands, each of which can fail. A host and a port are  *)
(* the number of the call that wrote them, 0 for what was there before. On   *)
(* macOS the settings belong to a network service and the active one may     *)
(* change between calls.                                                     *)
(*****************************************************************************)
EXTENDS Naturals, Sequences

CONSTANTS Platforms,   \* of "macos", "gnome", "windows"
          Services,    \* network services of the machine
          MaxCalls

ASSUME PlatformsAssumption == Platforms \subseteq {"macos", "gnome", "windows"}

VARIABLES platform,
          active,    \* the network service of the default route
          host,      \* host[slot], port[slot]: the endpoint a slot is configured with
          port,
          on,        \* slots that are switched on
          calls,     \* calls that have begun
          op,        \* the call that runs or ran last: "set" or "disable" of a kind
          service,   \* the service it works on
          todo,      \* its commands
          result,    \* "none" | "running" | "ok" | "error"
          settled    \* history: the set calls that reported success, until the next one
                     \* begins on the same settings

sysVars == <<platform, active, host, port, on, calls, op, service, todo, result, settled>>

Kinds == {"web", "socks"}
Ops == {"set", "disable"} \X Kinds

\* A slot holds one endpoint: of a type and a service on macOS, of a type with
\* GNOME, where one mode switches all of them; Windows has one string for either
\* kind.
Slots == CASE platform = "macos"   -> {"http", "https", "socks"} \X Services
           [] platform = "gnome"   -> {"http", "https", "socks"} \X {"all"}
           [] platform = "windows" -> Kinds \X {"all"}
AllSlots == {"http", "https", "socks", "web", "mode"} \X (Services \cup {"all"})

Types(kind) == IF platform = "windows" THEN <<kind>>
               ELSE IF kind = "web" THEN <<"http", "https">> ELSE <<"socks">>

\* Where a call that works on a service writes.
Place(svc) == IF platform = "macos" THEN svc ELSE "all"

Cmd(part, type, svc) == [part |-> part, slot |-> <<type, svc>>]

-------------------------------------------------------------------------------
\* The commands of a call.

\* networksetup -setwebproxy writes the endpoint and switches it on.
MacSet(kind, svc) == [i \in 1..Len(Types(kind)) |-> Cmd("bothOn", Types(kind)[i], svc)]
MacDisable(kind, svc) == [i \in 1..Len(Types(kind)) |-> Cmd("off", Types(kind)[i], svc)]

GnomeEndpoint(type) == << Cmd("host", type, "all"), Cmd("port", type, "all") >>

(* Variant: the proxy is not switched on. *)
GnomeSetOff(kind) ==
  IF kind = "web" THEN GnomeEndpoint("http") \o GnomeEndpoint("https") ELSE GnomeEndpoint("socks")

GnomeSet(kind) ==
  (IF kind = "web" THEN GnomeEndpoint("http") \o GnomeEndpoint("https") ELSE GnomeEndpoint("socks"))
  \o << Cmd("on", "mode", "all") >>
GnomeDisable == << Cmd("off", "mode", "all") >>

\* ProxyServer, ProxyOverride, ProxyEnable, then two notifications
WindowsSet(kind) == << Cmd("both", kind, "all"), Cmd("none", kind, "all"), Cmd("on", "mode", "all"),
                       Cmd("none", kind, "all"), Cmd("none", kind, "all") >>
WindowsDisable == << Cmd("off", "mode", "all"), Cmd("none", "web", "all"), Cmd("none", "web", "all") >>

Commands(what, kind) ==
  CASE platform = "macos" /\ what = "set"       -> MacSet(kind, active)
    [] platform = "macos" /\ what = "disable"   -> MacDisable(kind, active)
    [] platform = "gnome" /\ what = "set"       -> GnomeSet(kind)
    [] platform = "gnome" /\ what = "disable"   -> GnomeDisable
    [] platform = "windows" /\ what = "set"     -> WindowsSet(kind)
    [] platform = "windows" /\ what = "disable" -> WindowsDisable

-------------------------------------------------------------------------------

SysInit == /\ platform \in Platforms
           /\ active \in Services
           /\ host = [s \in AllSlots |-> 0] /\ port = [s \in AllSlots |-> 0]
           /\ on = {}
           /\ calls = 0 /\ op = <<"disable", "web">> /\ service = active
           /\ todo = <<>> /\ result = "none"
           /\ settled = [kind: Kinds, svc: {Place(s): s \in Services}, call: {0}]

\* A set call writes over the settings of a report: Windows has one string.
Rewrites(kind, svc, x) == x.svc = Place(svc) /\ (x.kind = kind \/ platform = "windows")

\* The calls are made one after the other. Finding the active service can fail.
Call == /\ result # "running" /\ calls < MaxCalls
        /\ \E o \in Ops:
             /\ op' = o /\ calls' = calls + 1 /\ service' = active
             /\ \/ /\ todo' = Commands(o[1], o[2]) /\ result' = "running"
                   /\ settled' = IF o[1] = "set" THEN {x \in settled: ~Rewrites(o[2], active, x)}
                                                ELSE settled
                \/ platform = "macos" /\ todo' = <<>> /\ result' = "error" /\ settled' = settled
        /\ UNCHANGED <<platform, active, host, port, on>>

\* The machine changes its network.
ChangeService == /\ platform = "macos"
                 /\ \E s \in Services: active' = s
                 /\ UNCHANGED <<platform, host, port, on, calls, op, service, todo, result, settled>>

Command == LET c == Head(todo) IN
  /\ result = "running" /\ todo # <<>>
  /\ host' = IF c.part \in {"host", "both", "bothOn"} THEN [host EXCEPT ![c.slot] = calls] ELSE host
  /\ port' = IF c.part \in {"port", "both", "bothOn"} THEN [port EXCEPT ![c.slot] = calls] ELSE port
  /\ on' = CASE c.part \in {"bothOn", "on"} -> on \cup {c.slot}
             [] c.part = "off"              -> on \ {c.slot}
             [] OTHER                       -> on
  /\ todo' = Tail(todo)
  /\ UNCHANGED <<platform, active, calls, op, service, result, settled>>

(* Variant: the error of a command is not returned. *)
CommandFailsUnseen == /\ result = "running" /\ todo # <<>>
                      /\ todo' = Tail(todo)
                      /\ UNCHANGED <<platform, active, host, port, on, calls, op, service, result, settled>>

\* A command fails. DisableWebProxy of macOS still makes the other one and joins
\* the errors; everything else returns at once, with what was done in place.
CommandFails == /\ result = "running" /\ todo # <<>>
                /\ result' = "error"
                /\ IF platform = "macos" /\ op[1] = "disable" /\ Len(todo) = 2
                   THEN \/ on' = on \ {todo[2].slot}
                        \/ on' = on
                   ELSE on' = on
                /\ todo' = <<>>
                /\ UNCHANGED <<platform, active, host, port, calls, op, service, settled>>

CallReturnsOk ==
  /\ result = "running" /\ todo = <<>>
  /\ result' = "ok"
  /\ settled' = IF op[1] = "set"
                THEN settled \cup {[kind |-> op[2], svc |-> Place(service), call |-> calls]}
                ELSE settled
  /\ UNCHANGED <<platform, active, host, port, on, calls, op, service, todo>>

SysNext == Call \/ ChangeService \/ Command \/ CommandFails \/ CallReturnsOk

SysSpec == SysInit /\ [][SysNext]_sysVars

-------------------------------------------------------------------------------

\* The string that Windows has is the one written last.
Latest(slot) == \A t \in Slots: host[t] <= host[slot]

InUse(slot) == CASE platform = "macos"   -> slot \in on
                 [] platform = "gnome"   -> <<"mode", "all">> \in on
                 [] platform = "windows" -> <<"mode", "all">> \in on /\ Latest(slot)

Written(slot, call) == host[slot] = call /\ port[slot] = call

\* What a call has reported as set is there, host and port, for HTTP as for HTTPS,
\* until the next set call for it: no call of the other kind or for another service,
\* no disabling and no failure halfway changes a part of it. So an endpoint that is
\* half of one call and half of another, which GNOME's two commands can leave, is
\* one whose last caller still waits or got an error.
ReportedStays == \A x \in settled: \A i \in 1..Len(Types(x.kind)):
                   Written(<<Types(x.kind)[i], x.svc>>, x.call)

\* A call that reports success has done what it says: HTTP and HTTPS both go to the
\* endpoint of the call, or the proxy is off, on the service the call worked on.
TakenEffect == \A i \in 1..Len(Types(op[2])):
                 LET slot == <<Types(op[2])[i], Place(service)>>
                 IN IF op[1] = "set" THEN InUse(slot) /\ Written(slot, calls) ELSE ~InUse(slot)
CallTakesEffect == result = "ok" => TakenEffect

\* A success that is reported is true when it is reported and as long as it should be.
ProxyIsAsAsked == ReportedStays /\ CallTakesEffect

\* Not so with GNOME, which writes a host and a port one after the other: they are
\* in use meanwhile when the proxy was on, and when the second one has failed they
\* are once a set call of the other kind switches it on.
OnlyWholeProxiesInUse == \A slot \in Slots: InUse(slot) => host[slot] = port[slot]

\* "revert previous changes" (sysproxy_darwin.go, where HTTPS cannot be set after HTTP).
\* Not so: the new HTTP proxy stays in use.
FailedSetReverts == platform = "macos" /\ op[1] = "set" /\ result = "error"
                      => \A type \in {"http", "https", "socks"}: host[<<type, service>>] # calls
===============================================================================

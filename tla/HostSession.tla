----------------------------- MODULE HostSession ------------------------------
(*****************************************************************************)
(* The Linux VPN client src/x/examples/outline-cli: App.Run changes the      *)
(* machine step by step, a TUN device, the IPv6 switch, the files of the DNS *)
(* resolver, routes and a rule, and puts everything back with deferred calls *)
(* when a step fails or a signal comes. The process may also be killed: what *)
(* the kernel keeps for it goes, what is in files and the rule stay, and the *)
(* program may be started again. Cleaning up is taken to succeed; its        *)
(* failures are only logged.                                                 *)
(*****************************************************************************)
EXTENDS Naturals, Sequences

CONSTANTS MaxRuns, MaxCrashes

VARIABLES file,       \* file[f]: "orig" | "ours" | "none"
          backup,     \* what is under the backup's name
          born,       \* the files as they were
          ipv6,       \* "on" | "off"
          tun,        \* "none" | "open"
          device,     \* the OutlineDevice: "none" | "open" | "closed"
          udp,        \* where it sends UDP packets: "fallback" | "remote"
          routes,     \* of {"link", "gateway"}
          rule,       \* "none" | "set"
          pc,         \* the step of Run, "unwind" for its deferred calls, "returned", and
                      \* "off" before the first run and after a crash
          deferred,   \* the deferred calls, the last one first
          backups,    \* systemDNSBackups
          prevIPv6,
          toDevice,   \* io.Copy(ss, tun): "none" | "copy"
          toTun,      \* io.Copy(tun, ss): "none" | "read" | "count" | "write" | "stuck"
          runs, crashes,
          half,       \* the DNS setting of this run has failed halfway
          found       \* history: the machine as the last run found it

copies == <<toDevice, toTun>>
hostVars == <<file, backup, born, ipv6, tun, device, udp, routes, rule, pc, deferred, backups,
              prevIPv6, copies, runs, crashes, half, found>>
machine == <<file, backup, ipv6, tun, device, routes, rule>>
counts == <<born, runs, crashes, found, udp>>

\* resolv.conf and resolv.conf.head; the latter need not exist.
Files == {"conf", "head"}

AsItIs == [file |-> file, backup |-> backup, ipv6 |-> ipv6, rule |-> rule]

HostInit == /\ file \in [Files -> {"orig", "none"}] /\ file["conf"] = "orig"
            /\ born = file
            /\ backup = [f \in Files |-> "none"]
            /\ ipv6 \in {"on", "off"}
            /\ tun = "none" /\ device = "none" /\ udp = "fallback" /\ routes = {} /\ rule = "none"
            /\ pc = "off" /\ deferred = <<>> /\ backups = <<>> /\ prevIPv6 = ipv6 /\ toDevice = "none" /\ toTun = "none"
            /\ runs = 0 /\ crashes = 0 /\ half = FALSE
            /\ found = AsItIs

-------------------------------------------------------------------------------
\* App.Run

\* The wait for the copies is deferred first and so made last.
Start == /\ pc \in {"off", "returned"} /\ runs < MaxRuns
         /\ runs' = runs + 1
         /\ found' = AsItIs
         /\ pc' = "tun" /\ deferred' = <<"wait">> /\ backups' = <<>> /\ half' = FALSE
         /\ device' = "none"
         /\ UNCHANGED <<file, backup, ipv6, tun, routes, rule, born, udp, prevIPv6, copies, crashes>>

StepFails(step) == /\ pc = step
                   /\ pc' = "unwind"
                   /\ UNCHANGED <<machine, counts, deferred, backups, prevIPv6, copies>>

(* Variant: the device is closed after the wait for the copies. *)
OpenTunUnder == \/ /\ pc = "tun"
                   /\ tun' = "open"
                   /\ deferred' = Append(deferred, "tun")
                   /\ pc' = "ipv6"
                   /\ UNCHANGED <<file, backup, ipv6, device, routes, rule, counts, backups, prevIPv6, copies, half>>
                \/ StepFails("tun") /\ UNCHANGED half

\* newTunDevice closes the interface when it cannot set it up.
OpenTun == \/ /\ pc = "tun"
              /\ tun' = "open"
              /\ deferred' = <<"tun">> \o deferred
              /\ pc' = "ipv6"
              /\ UNCHANGED <<file, backup, ipv6, device, routes, rule, counts, backups, prevIPv6, copies, half>>
           \/ StepFails("tun") /\ UNCHANGED half

DisableIPv6 == \/ /\ pc = "ipv6"
                  /\ prevIPv6' = ipv6 /\ ipv6' = "off"
                  /\ deferred' = <<"ipv6">> \o deferred
                  /\ pc' = "device"
                  /\ UNCHANGED <<file, backup, tun, device, routes, rule, counts, backups, copies, half>>
               \/ StepFails("ipv6") /\ UNCHANGED half

MakeDevice == \/ /\ pc = "device"
                 /\ device' = "open" /\ udp' = "fallback"
                 /\ deferred' = <<"device">> \o deferred
                 /\ pc' = "copy"
                 /\ UNCHANGED <<file, backup, ipv6, tun, routes, rule, born, runs, crashes, found, backups, prevIPv6, copies, half>>
              \/ StepFails("device") /\ UNCHANGED half

\* TestConnectivityWithResolver: a response that cannot be used shows that there is
\* connectivity, a question that cannot be asked shows nothing.
Connects(query) == query \in {"answer", "badResponse"}

Queries == {"answer", "badRequest", "badResponse", "dial", "send", "receive"}

\* testConnectivityAndRefresh
Refresh(query) == CASE query = "badRequest" -> udp
                    [] Connects(query)      -> "remote"
                    [] OTHER                -> "fallback"

\* Refresh, whose error is ignored, and the two copies
StartCopies == /\ pc = "copy"
               /\ \E query \in Queries: udp' = Refresh(query)
               /\ toDevice' = "copy" /\ toTun' = "read"
               /\ pc' = "backup"
               /\ UNCHANGED <<machine, born, runs, crashes, found, deferred, backups, prevIPv6, half>>

-------------------------------------------------------------------------------
\* setSystemDNSServer: one file after the other, each backed up and then written.

NextFile == IF backups = <<>> THEN "conf" ELSE "head"
LastBacked == backups[Len(backups)]

(* Variant: the file is written over without a backup. *)
BackUpNot == \/ /\ pc = "backup"
                /\ file' = file /\ backup' = backup
                /\ backups' = Append(backups, NextFile)
                /\ pc' = "write"
                /\ UNCHANGED <<ipv6, tun, device, routes, rule, counts, deferred, prevIPv6, copies, half>>
             \/ StepFails("backup") /\ half' = (backups # <<>>)

BackUp == \/ LET f == NextFile IN
             /\ pc = "backup"
             /\ backup' = IF file[f] # "none" THEN [backup EXCEPT ![f] = file[f]] ELSE backup
             /\ file' = [file EXCEPT ![f] = "none"]
             /\ backups' = Append(backups, f)
             /\ pc' = "write"
             /\ UNCHANGED <<ipv6, tun, device, routes, rule, counts, deferred, prevIPv6, copies, half>>
          \/ StepFails("backup") /\ half' = (backups # <<>>)

\* The calls that restore the files are deferred when both are written.
WriteOurs == \/ /\ pc = "write"
                /\ file' = [file EXCEPT ![LastBacked] = "ours"]
                /\ IF Len(backups) = 2 THEN pc' = "link" /\ deferred' = <<"dns">> \o deferred
                                       ELSE pc' = "backup" /\ deferred' = deferred
                /\ UNCHANGED <<backup, ipv6, tun, device, routes, rule, counts, backups, prevIPv6, copies, half>>
             \/ StepFails("write") /\ half' = TRUE

\* restoreSystemDNSServer, a file at a time
RestoreFile == LET f == Head(backups) IN
  /\ file' = [file EXCEPT ![f] = IF backup[f] # "none" THEN backup[f] ELSE "none"]
  /\ backup' = [backup EXCEPT ![f] = "none"]
  /\ backups' = Tail(backups)

-------------------------------------------------------------------------------
\* startRouting

AddRoute(step, route, next) ==
  \/ /\ pc = step
     /\ routes' = routes \cup {route}
     /\ pc' = next
     /\ UNCHANGED <<file, backup, ipv6, tun, device, rule, counts, deferred, backups, prevIPv6, copies, half>>
  \/ StepFails(step) /\ UNCHANGED half

\* A rule that is there already, left by an earlier run, is an error and removed.
AddRule == \/ /\ pc = "rule" /\ rule = "none"
              /\ rule' = "set"
              /\ deferred' = <<"routing">> \o deferred
              /\ pc' = "serve"
              /\ UNCHANGED <<file, backup, ipv6, tun, device, routes, counts, backups, prevIPv6, copies, half>>
           \/ /\ pc = "rule"
              /\ rule' = "none"
              /\ pc' = "unwind"
              /\ UNCHANGED <<file, backup, ipv6, tun, device, routes, counts, deferred, backups, prevIPv6, copies, half>>

\* An interrupt, SIGTERM or SIGHUP ends the wait.
Signalled == StepFails("serve") /\ UNCHANGED half

-------------------------------------------------------------------------------
\* The deferred calls, in their order. Routes go with the device they lead to.

(* Variant: the IPv6 switch is not put back. *)
UnwindIPv6Off(what) ==
  CASE what = "routing" -> routes' = {} /\ rule' = "none" /\ UNCHANGED <<file, backup, backups, ipv6, tun, device>>
    [] what = "dns" /\ backups # <<>> -> RestoreFile /\ UNCHANGED <<ipv6, tun, device, routes, rule>>
    [] what = "device"  -> device' = "closed" /\ UNCHANGED <<file, backup, backups, ipv6, tun, routes, rule>>
    [] what = "tun"     -> tun' = "none" /\ routes' = {} /\ UNCHANGED <<file, backup, backups, ipv6, device, rule>>
    [] OTHER            -> UNCHANGED <<file, backup, backups, ipv6, tun, device, routes, rule>>

PutBack(what) ==
  CASE what = "routing" -> routes' = {} /\ rule' = "none" /\ UNCHANGED <<file, backup, backups, ipv6, tun, device>>
    [] what = "dns" /\ backups # <<>> -> RestoreFile /\ UNCHANGED <<ipv6, tun, device, routes, rule>>
    [] what = "device"  -> device' = "closed" /\ UNCHANGED <<file, backup, backups, ipv6, tun, routes, rule>>
    [] what = "ipv6"    -> ipv6' = prevIPv6 /\ UNCHANGED <<file, backup, backups, tun, device, routes, rule>>
    [] what = "tun"     -> tun' = "none" /\ routes' = {} /\ UNCHANGED <<file, backup, backups, ipv6, device, rule>>
    [] OTHER            -> UNCHANGED <<file, backup, backups, ipv6, tun, device, routes, rule>>

Unwind == /\ pc = "unwind" /\ deferred # <<>>
          /\ Head(deferred) = "wait" => toDevice = "none" /\ toTun = "none"
          /\ PutBack(Head(deferred))
          /\ IF Head(deferred) = "dns" /\ backups # <<>> THEN deferred' = deferred
                                                         ELSE deferred' = Tail(deferred)
          /\ UNCHANGED <<pc, counts, prevIPv6, copies, half>>

Exit == /\ pc = "unwind" /\ deferred = <<>>
        /\ pc' = "returned"
        /\ UNCHANGED <<machine, counts, deferred, backups, prevIPv6, copies, half>>

-------------------------------------------------------------------------------
\* The two copies. A copy ends at any error of what it reads from or writes to.

ToDeviceEnds == /\ toDevice = "copy"
                /\ toDevice' = "none"
                /\ UNCHANGED <<machine, counts, pc, deferred, backups, prevIPv6, toTun, half>>

ToTunGoes(from, to) ==
  /\ toTun = from /\ toTun' = to
  /\ UNCHANGED <<machine, counts, pc, deferred, backups, prevIPv6, toDevice, half>>

\* Read (the embedded IPDevice has no WriteTo) takes a packet from rdBuf, ...
PacketComes == device # "none" /\ ToTunGoes("read", "count")

\* ... tells its length on rdN, where the forwarder takes it unless it has left
\* because the device was closed: then nobody does, and Read stays there; ...
CountTaken == ToTunGoes("count", "write")
ForwarderLeaves == device = "closed" /\ ToTunGoes("count", "stuck")

\* ... the packet is written to the interface, if that is open; ...
PacketWritten == tun = "open" /\ ToTunGoes("write", "read")
WriteFails == ToTunGoes("write", "none")

\* ... and a Read without a packet ends with the device.
ReadEnds == device = "closed" /\ ToTunGoes("read", "none")

ToTunSteps == CountTaken \/ ForwarderLeaves \/ PacketWritten \/ WriteFails \/ ReadEnds

Crash == /\ pc \notin {"off", "returned"} /\ crashes < MaxCrashes
         /\ crashes' = crashes + 1
         /\ pc' = "off" /\ tun' = "none" /\ device' = "none" /\ routes' = {}
         /\ toDevice' = "none" /\ toTun' = "none"
         /\ deferred' = <<>> /\ backups' = <<>>
         /\ UNCHANGED <<file, backup, born, ipv6, rule, udp, prevIPv6, runs, half, found>>

RunSteps == \/ OpenTun \/ DisableIPv6 \/ MakeDevice \/ StartCopies \/ BackUp \/ WriteOurs
            \/ AddRoute("link", "link", "gateway") \/ AddRoute("gateway", "gateway", "rule")
            \/ AddRule \/ Unwind \/ Exit

HostNext == \/ Start \/ RunSteps \/ Signalled
            \/ ToDeviceEnds \/ PacketComes \/ ToTunSteps
            \/ Crash

\* Run and the copies are goroutines, and reading a closed interface fails. Nothing
\* is assumed of signals, packets and the other errors.
HostFairness == /\ WF_hostVars(RunSteps)
                /\ WF_hostVars(tun = "none" /\ ToDeviceEnds)
                /\ WF_hostVars(ToTunSteps)

HostSpec == HostInit /\ [][HostNext]_hostVars /\ HostFairness

-------------------------------------------------------------------------------

\* Run has nothing left to do but wait for its copies, or has returned.
RunIsDone == pc = "returned" \/ (pc = "unwind" /\ deferred = <<"wait">>)

\* What a file was when the run began is in the file again, or only in the backup.
Kept(f) == IF found.file[f] # "none" THEN found.file[f] ELSE found.backup[f]
LeftAlone(f) == file[f] = found.file[f] /\ backup[f] = found.backup[f]
Restored(f) == file[f] = Kept(f) /\ backup[f] = "none"
Saved(f) == file[f] \in {"none", "ours"} /\ backup[f] = Kept(f)

\* However far Run got and whatever it had found, also the leftovers of a killed
\* run: when it is done, nothing it did to the machine is left. Either it has not
\* come to the resolver's files or both of them are back, and a rule is only there
\* if it was there before. When the setting of the files itself fails halfway they
\* are not put back (see FailedSettingReverts); what they held is in the backups.
MachineRestored ==
  RunIsDone => /\ ipv6 = found.ipv6 /\ tun = "none" /\ routes = {}
               /\ rule \in {"none", found.rule}
               /\ IF half THEN \A f \in Files: LeftAlone(f) \/ Saved(f)
                  ELSE (\A f \in Files: LeftAlone(f)) \/ (\A f \in Files: Restored(f))

\* The user's resolver settings are in their place or in the backup. No step loses
\* them, at whatever point a run fails, is killed or begins on leftovers, but one:
\* the renaming of a file of the client's own over the backup.
Survives(f) == born[f] = "orig" => file[f] = "orig" \/ backup[f] = "orig"
BacksUpOurs(f) == pc = "backup" /\ pc' = "write" /\ NextFile = f /\ file[f] = "ours"
SettingsSurvive == [][\A f \in Files: Survives(f) => Survives(f)' \/ BacksUpOurs(f)]_hostVars

\* "The original file has been renamed as resolv[.head].outlinecli.backup" says each
\* file of the client's own (dns_linux.go). Not so after a run over leftovers.
BackupIsOriginal == \A f \in Files: file[f] = "ours" /\ born[f] = "orig" => backup[f] = "orig"

\* A run that is over comes to its end: the deferred calls do not wait for a copy
\* that only a later one of them can stop ("this WaitGroup must Wait() after tun is
\* closed", app_linux.go). A Read that the closing of the device has left behind is
\* waited for in vain, when all else is done.
Stuck == pc = "unwind" /\ deferred = <<"wait">> /\ toTun = "stuck"
RunReturns == pc = "unwind" ~> pc \in {"returned", "off"} \/ Stuck

\* Not so, because of that Read (device.go, ReadReturns of LwipDevice).
EveryRunReturns == pc = "unwind" ~> pc \in {"returned", "off"}

\* Not so: the deferral of restoreSystemDNSServer comes behind the return of the error
\* of setSystemDNSServer (app_linux.go).
FailedSettingReverts == RunIsDone => \A f \in Files: LeftAlone(f) \/ Restored(f)
===============================================================================

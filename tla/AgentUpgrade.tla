---------------------------- MODULE AgentUpgrade ----------------------------
(***************************************************************************)
(* One-click upgrades of one node's Agent: the queue of the server         *)
(* (internal/httpapi/upgrade.go), the directory of signed programs         *)
(* (internal/agentdist, cmd/server/agentsign.go), the download, the swap   *)
(* of the executable and the restart on the node (internal/agent/          *)
(* update.go, cmd/agent/main.go), and the installation by hand             *)
(* (internal/agentdist/install.sh).  Under systemd the Agent may not write *)
(* its executable: what it staged is swapped in before the next start, by  *)
(* the old program with full rights.  Under OpenRC the running process     *)
(* swaps it, and the next start what it left.                              *)
(*                                                                         *)
(* A digest is the program it is of, a signature the program and the key   *)
(* it was made with: both stand for what nobody can produce otherwise.     *)
(* One architecture.                                                       *)
(***************************************************************************)
EXTENDS Integers, FiniteSets

CONSTANTS None, Torn, \* no file, one half written
          Builds,    \* programs: [version, stated, runs]
          Shipped,     \* the program installed at first
          Panel,     \* model.Version of the server
          Keys,      \* the operator's keys
          MaxClicks, \* bound: nodes queued by the administrator
          MaxLives,  \* bound: starts of the service
          MaxCopies, \* bound: copies the operator puts in the directory
          MaxFaults  \* bound: kills, and copies a full disk cuts off

VARIABLES dir,      \* the directory the server serves: program, .sig, key
          item,     \* upgradeQueue: the node's entry, or NoItem
          reported, \* what the node last reported, or NoReport
          wire,     \* reports and heartbeats on their way
          exe, previous, next, \* /usr/local/bin/tza-agent, .previous, .new
          staged, sigfile,     \* tza-agent.new and its .sig in the state directory
          pinned,   \* /etc/tza-probe/upgrade-key.pub
          proc,     \* the process of the service and its updater
          sandboxed, \* the unit is systemd's
          signed,   \* history: what the operator has signed
          hand,     \* history: the program last installed by hand
          count,    \* clicks, restarts asked for, copies and faults so far
          elsewhere \* the rest of the system

queueVars == <<dir, item, reported, signed>>
fileVars == <<exe, previous, next, staged, sigfile, pinned, hand>>
upgradeVars == <<queueVars, wire, fileVars, proc, sandboxed, count>>

NoItem == [state |-> "none"]
NoReport == [life |-> 0]

\* A version is MAJOR.MINOR.PATCH, one with a pre-release suffix, or anything
\* else a hand-built program may say.
Version(core, form) == [core |-> core, form |-> form]
Releasable(v) == v.form = "release"

Newer(c, r) ==
    /\ Releasable(c)
    /\ \/ r.form = "other"
       \/ r.form # "other" /\ c.core > r.core
       \/ r.form = "pre" /\ c.core = r.core

Signatures == [build : Builds, key : Keys]

\* Sign and Signature.Verify: a key one trusts made it.
Trusted(sig, key) == key # None /\ sig.key = key

\* Mutant: an upgrade may be older than what runs.
VerifyAny(sig, running) == Trusted(sig, pinned)

\* verify: signed by the pinned key and newer than the running program.
Verify(sig, running) ==
    Trusted(sig, pinned) /\ Newer(sig.build.stated, running.version)

-----------------------------------------------------------------------------
(* The server *)

\* Dist.Signature: of the program served, made with the key published.
Signed ==
    /\ dir.sig # None /\ dir.sig.build = dir.bin
    /\ Trusted(dir.sig, dir.key)

\* offer: what becomes of an Agent that reports m.
Offer(m) ==
    CASE dir.bin = None -> "unavailable"
      [] dir.bin # None /\ ~Signed -> "unsigned"
      [] OTHER -> IF Newer(dir.bin.stated, m.version) THEN "queued" ELSE "current"

\* POST /admin/agents/upgrade, by the last report of the node.
Chosen(m) ==
    CASE m = NoReport -> "never"
      [] m # NoReport /\ m.version = Panel -> "current"
      [] m # NoReport /\ m.version # Panel /\ ~m.self -> "manual"
      [] OTHER -> Offer(m)

\* Mutant: a node that cannot be upgraded is entered as well.
QueueUpgradeAny ==
    /\ count.clicks < MaxClicks
    /\ item' = [state |-> Chosen(reported), version |-> None, stale |-> FALSE]
    /\ count' = [count EXCEPT !.clicks = @ + 1]
    /\ UNCHANGED <<dir, reported, signed, wire, fileVars, proc, sandboxed, elsewhere>>

QueueUpgrade ==
    /\ count.clicks < MaxClicks
    /\ item' = IF Chosen(reported) # "queued" THEN NoItem
               ELSE [state |-> "queued", version |-> None, stale |-> FALSE]
    /\ count' = [count EXCEPT !.clicks = @ + 1]
    /\ UNCHANGED <<dir, reported, signed, wire, fileVars, proc, sandboxed, elsewhere>>

\* 24 hours in the queue, five minutes since the offer.
Elapse ==
    /\ item.state \in {"queued", "sent"} /\ ~item.stale
    /\ item' = [item EXCEPT !.stale = TRUE]
    /\ UNCHANGED <<dir, reported, signed, wire, fileVars, proc, sandboxed, count, elsewhere>>

\* expire, which only GET /admin/agents/upgrade calls.
ViewQueue ==
    /\ item.state \in {"queued", "sent"} /\ item.stale
    /\ item' = IF item.state = "queued" THEN NoItem ELSE [item EXCEPT !.state = "failed"]
    /\ UNCHANGED <<dir, reported, signed, wire, fileVars, proc, sandboxed, count, elsewhere>>

\* The queue is in memory only.
ServerRestart ==
    /\ item # NoItem /\ item' = NoItem
    /\ UNCHANGED <<dir, reported, signed, wire, fileVars, proc, sandboxed, count, elsewhere>>

\* Mutant: an entry stays queued when the offer is made.
ReplyAgain(m) ==
    IF item = NoItem \/ m.version \in {Panel, item.version} THEN NoItem
    ELSE IF item.state # "queued" THEN item
    ELSE IF ~m.self THEN [item EXCEPT !.state = "manual"]
    ELSE CASE Offer(m) = "current" -> NoItem
           [] Offer(m) = "queued" -> item
           [] OTHER -> [item EXCEPT !.state = Offer(m)]

\* upgradeReply: the entry after a report of m.  A report of the version offered,
\* or of the panel's own, ends it.
Reply(m) ==
    IF item = NoItem \/ m.version \in {Panel, item.version} THEN NoItem
    ELSE IF item.state # "queued" THEN item
    ELSE IF ~m.self THEN [item EXCEPT !.state = "manual"]
    ELSE CASE Offer(m) = "current" -> NoItem
           [] Offer(m) = "queued" ->
                 [state |-> "sent", version |-> dir.bin.stated, stale |-> FALSE]
           [] OTHER -> [item EXCEPT !.state = Offer(m)]

\* Reply hands out an instruction.
Offers(m) ==
    /\ item.state = "queued" /\ m.version \notin {Panel, item.version}
    /\ m.self /\ Offer(m) = "queued"

\* POST agent/report and agent/heartbeat: taken unless a later process has
\* taken over; the answer reaches the process that asked, if it still runs.
\* It is dropped while another upgrade is at work (handleUpgrade's TryLock).
Serve(m) ==
    /\ m \in wire /\ wire' = wire \ {m}
    /\ IF m.life < reported.life
       THEN UNCHANGED <<item, reported, proc>>
       ELSE /\ reported' = m /\ item' = Reply(m)
            /\ IF Offers(m) /\ proc.at = "run" /\ proc.life = m.life
               THEN proc' = [proc EXCEPT !.at = "begin",
                                         !.offer = [build |-> dir.bin, key |-> dir.key]]
               ELSE UNCHANGED proc
    /\ UNCHANGED <<dir, signed, fileVars, sandboxed, count, elsewhere>>

Lose(m) ==
    /\ m \in wire /\ wire' = wire \ {m}
    /\ UNCHANGED <<queueVars, fileVars, proc, sandboxed, count, elsewhere>>

\* The operator copies a program, signs it (agent-sign refuses a version that is
\* no release), publishes a key: three files, replaced one by one.
Copied == count.copies < MaxCopies /\ count' = [count EXCEPT !.copies = @ + 1]

PutBinary(b) ==
    /\ Copied /\ b # dir.bin /\ dir' = [dir EXCEPT !.bin = b]
    /\ UNCHANGED <<item, reported, signed, wire, fileVars, proc, sandboxed, elsewhere>>

AgentSign(k) ==
    /\ Copied /\ dir.bin # None /\ Releasable(dir.bin.stated)
    /\ dir' = [dir EXCEPT !.sig = [build |-> dir.bin, key |-> k]]
    /\ dir'.sig # dir.sig /\ signed' = signed \cup {dir'.sig}
    /\ UNCHANGED <<item, reported, wire, fileVars, proc, sandboxed, elsewhere>>

PublishKey(k) ==
    /\ Copied /\ k # dir.key /\ dir' = [dir EXCEPT !.key = k]
    /\ UNCHANGED <<item, reported, signed, wire, fileVars, proc, sandboxed, elsewhere>>

-----------------------------------------------------------------------------
(* The node: reporting and the updater *)

nodeRest == <<queueVars, wire, pinned, hand, sandboxed, elsewhere>>

Running == proc.at # "down" /\ ~proc.pre
At(step) == proc.at = step
To(step) == proc' = [proc EXCEPT !.at = step]

\* Reports go on while an upgrade is at work; a report and a heartbeat at most
\* are on their way.
Report ==
    /\ Running /\ Cardinality(wire) < 2
    /\ wire' = wire \cup {[version |-> proc.image.version, self |-> proc.self,
                           life |-> proc.life]}
    /\ wire' # wire
    /\ UNCHANGED <<queueVars, fileVars, proc, sandboxed, count, elsewhere>>

\* Update: what is installed already, or is refused, changes nothing.
BeginUpdate ==
    /\ At("begin")
    /\ IF exe # proc.offer.build /\ Verify(proc.offer, proc.image)
       THEN To("download") ELSE To("run")
    /\ UNCHANGED <<nodeRest, exe, previous, next, staged, sigfile, count>>

\* The digest of the offer is compared with what came; the download may fail.
Download(ok) ==
    /\ At("download")
    /\ IF ok /\ dir.bin = proc.offer.build THEN To("trial") ELSE To("run")
    /\ UNCHANGED <<nodeRest, exe, previous, next, staged, sigfile, count>>

\* Mutant: the download is not tried.
TrialSkipped ==
    /\ At("trial") /\ To("sign")
    /\ UNCHANGED <<nodeRest, exe, previous, next, staged, sigfile, count>>

\* tmp --version.
Trial ==
    /\ At("trial") /\ (IF proc.offer.build.runs THEN To("sign") ELSE To("run"))
    /\ UNCHANGED <<nodeRest, exe, previous, next, staged, sigfile, count>>

\* The signature is written in place, then the program renamed beside it.
BeginSignature ==
    /\ At("sign") /\ sigfile' = Torn /\ To("signing")
    /\ UNCHANGED <<nodeRest, exe, previous, next, staged, count>>

WriteSignature ==
    /\ At("signing") /\ sigfile' = proc.offer /\ To("stage")
    /\ UNCHANGED <<nodeRest, exe, previous, next, staged, count>>

RenameStaged ==
    /\ At("stage") /\ staged' = proc.offer.build /\ To("check")
    /\ UNCHANGED <<nodeRest, exe, previous, next, sigfile, count>>

-----------------------------------------------------------------------------
(* ApplyStaged: by the updater, or before a start (proc.pre) *)

\* Where a failure leaves: the start goes on with the program there is, the
\* updater keeps the running version.
Back == IF proc.pre THEN "start" ELSE "run"

\* Mutant: the staged program is not compared with what was signed.
UsableUnread ==
    /\ sigfile \notin {None, Torn} /\ Verify(sigfile, proc.image)

Usable ==
    /\ sigfile \notin {None, Torn} /\ Verify(sigfile, proc.image)
    /\ staged = sigfile.build

ApplyCheck ==
    /\ At("check")
    /\ CASE staged = None -> To(Back)
         [] staged # None /\ Usable -> To("copy")
         [] OTHER -> To("discard")
    /\ UNCHANGED <<nodeRest, exe, previous, next, staged, sigfile, count>>

\* Two files, removed one by one.
DiscardStaged ==
    /\ At("discard")
    /\ IF staged # None THEN staged' = None /\ UNCHANGED <<sigfile, proc>>
       ELSE sigfile' = None /\ To(Back) /\ UNCHANGED staged
    /\ UNCHANGED <<nodeRest, exe, previous, next, count>>

\* copyFile to .new: a read-only directory leaves the swap to the next start.
BeginCopy ==
    /\ At("copy")
    /\ IF sandboxed /\ ~proc.pre
       THEN To("exit") /\ UNCHANGED next
       ELSE next' = Torn /\ To("copying")
    /\ UNCHANGED <<nodeRest, exe, previous, staged, sigfile, count>>

EndCopy ==
    /\ At("copying") /\ next' = staged /\ To("save")
    /\ UNCHANGED <<nodeRest, exe, previous, staged, sigfile, count>>

\* copyFile of the executable to .previous.
BeginSave ==
    /\ At("save") /\ previous' = Torn /\ To("saving")
    /\ UNCHANGED <<nodeRest, exe, next, staged, sigfile, count>>

EndSave ==
    /\ At("saving") /\ previous' = exe /\ To("swap")
    /\ UNCHANGED <<nodeRest, exe, next, staged, sigfile, count>>

Fault == count.faults < MaxFaults /\ count' = [count EXCEPT !.faults = @ + 1]

\* The disk is full: .new is removed, what is staged stays for the next start.
CopyFails ==
    /\ proc.at \in {"copying", "saving"} /\ Fault /\ next' = None /\ To(Back)
    /\ UNCHANGED <<nodeRest, exe, previous, staged, sigfile>>

SwapExecutable ==
    /\ At("swap") /\ exe' = next /\ next' = None /\ To("clear")
    /\ UNCHANGED <<nodeRest, previous, staged, sigfile, count>>

ClearStaged ==
    /\ At("clear")
    /\ IF staged # None THEN staged' = None /\ UNCHANGED <<sigfile, proc>>
       ELSE sigfile' = None /\ To(IF proc.pre THEN "start" ELSE "exit") /\ UNCHANGED staged
    /\ UNCHANGED <<nodeRest, exe, previous, next, count>>

-----------------------------------------------------------------------------
(* The service manager *)

\* ExitRestart.
Exit ==
    /\ At("exit") /\ To("down")
    /\ count' = [count EXCEPT !.restarts = @ + 1]
    /\ UNCHANGED <<nodeRest, exe, previous, next, staged, sigfile>>

\* ExecStartPre, start_pre: the installed program runs --apply-update; a kill
\* there is ignored and the service starts.
PreStart ==
    /\ At("down") /\ proc.life < MaxLives
    /\ proc' = [proc EXCEPT !.at = "check", !.pre = TRUE, !.image = exe]
    /\ UNCHANGED <<nodeRest, exe, previous, next, staged, sigfile, count>>

\* main: the pinned key is read, and self_update reported, only here.
StartService ==
    /\ At("start")
    /\ proc' = [at |-> "run", pre |-> FALSE, image |-> exe, self |-> pinned # None,
                life |-> proc.life + 1, offer |-> proc.offer]
    /\ UNCHANGED <<nodeRest, exe, previous, next, staged, sigfile, count>>

\* A crash, a loss of power: files stay as they are.
Kill ==
    /\ ~At("down") /\ Fault
    /\ proc' = [proc EXCEPT !.at = "down", !.pre = FALSE]
    /\ UNCHANGED <<nodeRest, exe, previous, next, staged, sigfile>>

\* install.sh: the program served, checked and tried; the service is stopped, what
\* was staged removed, the published key pinned.
ManualInstall ==
    /\ dir.bin # None /\ dir.bin.runs /\ ~(exe = dir.bin /\ hand = exe)
    /\ count.copies < MaxCopies /\ count' = [count EXCEPT !.copies = @ + 1]
    /\ proc' = [proc EXCEPT !.at = "down", !.pre = FALSE]
    /\ staged' = None /\ sigfile' = None
    /\ previous' = exe /\ exe' = dir.bin /\ hand' = dir.bin
    /\ pinned' = IF dir.key # None THEN dir.key ELSE pinned
    /\ UNCHANGED <<queueVars, wire, next, sandboxed, elsewhere>>

-----------------------------------------------------------------------------

UpgradeInit ==
    /\ \E b \in Builds, k \in Keys :
         /\ dir = [bin |-> b, sig |-> [build |-> b, key |-> k], key |-> k]
         /\ Releasable(b.stated) /\ pinned = k
    /\ signed = {dir.sig}
    /\ item = NoItem /\ reported = NoReport /\ wire = {}
    /\ exe = Shipped /\ hand = Shipped /\ previous = None /\ next = None
    /\ staged = None /\ sigfile = None /\ sandboxed \in BOOLEAN
    /\ proc = [at |-> "down", pre |-> FALSE, image |-> Shipped, self |-> FALSE,
               life |-> 0, offer |-> dir.sig]
    /\ count = [clicks |-> 0, restarts |-> 0, copies |-> 0, faults |-> 0]

Steps == {"down", "run", "begin", "download", "trial", "sign", "signing", "stage",
          "check", "discard", "copy", "copying", "save", "saving", "swap", "clear",
          "start", "exit"}

UpgradeTypeOK ==
    /\ dir.bin \in Builds \cup {None} /\ dir.key \in Keys \cup {None}
    /\ dir.sig \in Signatures \cup {None} /\ signed \subseteq Signatures
    /\ item.state \in {"none", "queued", "sent", "failed", "manual", "unsigned",
                       "unavailable"}
    /\ exe \in Builds \cup {Torn} /\ hand \in Builds
    /\ {previous, next, staged} \subseteq Builds \cup {None, Torn}
    /\ sigfile \in Signatures \cup {None, Torn} /\ pinned \in Keys \cup {None}
    /\ proc.at \in Steps /\ proc.life \in 0..MaxLives /\ Cardinality(wire) <= 2

\* Whatever is interrupted, the node keeps a program that is whole and runs, and
\* that the operator signed with the key the node pins or installed by hand.
ProgramSound ==
    /\ exe \in Builds /\ exe.runs
    /\ exe = hand \/ [build |-> exe, key |-> pinned] \in signed

\* What is about to replace the executable is what its signature names, newer than
\* the program that judged it, and the one it replaces is kept whole.
SwapSound ==
    At("swap") => /\ next = staged /\ sigfile = [build |-> next, key |-> pinned]
                  /\ Newer(next.stated, exe.version) /\ previous = exe

\* A click restarts the service once at most, however the upgrade ends.
RestartsAsked == count.restarts + (IF At("exit") THEN 1 ELSE 0) <= count.clicks

UpgradeTrue == ProgramSound /\ SwapSound /\ RestartsAsked

=============================================================================

---------------------------- MODULE AgentReports ----------------------------
(***************************************************************************)
(* Reports and heartbeats of one node (internal/agent/agent.go,            *)
(* heartbeat.go; internal/storage/agent.go Report, heartbeat.go,           *)
(* agent_state.go).  Several processes of the Agent may hold the node's    *)
(* token, one after another or at the same time; each draws a session when *)
(* it starts and numbers what it says of itself.  The server serves one    *)
(* session: another takes over by echoing a challenge that names the one   *)
(* in force.  Requests are lost, and arrive after their sender gave them   *)
(* up or has exited.                                                       *)
(*                                                                         *)
(* A process stands for its session.  Agents of before the sessions, whose *)
(* requests are taken in the order they arrive, are not modelled.          *)
(***************************************************************************)
EXTENDS Integers, FiniteSets

CONSTANTS Procs,    \* processes of the Agent, numbered as they start
          MaxSeq,   \* bound: generations of one process
          MaxBytes, \* bound: what the host transfers between two starts
          MaxBoot,  \* bound: starts of the host
          MaxWire   \* bound: requests on their way

VARIABLES agentSessions, \* node_agent_sessions: the row of a process, or NoRow
          metrics,  \* nodes.metrics: the last sample, or NoSample
          health,   \* node_health: the last diagnostic, or NoHealth
          traffic,  \* what the traffic buckets add up to, per start of the host
          proc,     \* agentHealth and the loops of each process
          call,     \* per process and kind: its request, or NoCall
          requests, \* requests on their way to the server
          host,     \* the host's counter and the number of its starts
          moved,    \* history: bytes the host transferred, per start of it
          reigns,   \* history: the owners in whose time a process lived
          rivals,   \* history: two processes ran at the same time
          elsewhere \* the rest of the system

serverVars == <<agentSessions, metrics, health, traffic>>
agentVars == <<proc, call, host, moved>>
lives == <<reigns, rivals>>
reportVars == <<serverVars, agentVars, requests, lives>>

Nobody == 0
NoProof == -1
NoRow == [active |-> FALSE, seq |-> 0]
NoSample == [by |-> Nobody, seq |-> 0, boot |-> 0, bytes |-> 0]
NoHealth == [by |-> Nobody, seq |-> 0, state |-> "ok"]
NoCall == [tries |-> 0]

ReportKinds == {"report", "heartbeat"}
Boots == 1..MaxBoot
Failures == {"collect_failed", "collect_timeout", "report_failed"}
States == Failures \cup {"starting", "collecting", "reporting", "ok"}

Samples == [by : Procs \cup {Nobody}, seq : 0..MaxSeq, boot : 0..MaxBoot,
            bytes : 0..MaxBytes]
Messages == [kind : ReportKinds, by : Procs, seq : 1..MaxSeq, state : States,
             boot : 0..MaxBoot, bytes : 0..MaxBytes,
             proof : Procs \cup {Nobody, NoProof}]

ReportsTypeOK ==
    /\ agentSessions \in [Procs -> [active : BOOLEAN, seq : 0..MaxSeq]]
    /\ metrics \in Samples /\ traffic \in [Boots -> Nat] /\ moved \in [Boots -> 0..MaxBytes]
    /\ health \in [by : Procs \cup {Nobody}, seq : 0..MaxSeq, state : States]
    /\ proc \in [Procs -> [at : {"new", "idle", "collecting", "gone"},
                           seq : 0..MaxSeq, state : States, stateSeq : 0..MaxSeq]]
    /\ \A p \in Procs, k \in ReportKinds : call[p][k] = NoCall \/
          call[p][k] \in [tries : 1..3, sent : Messages,
                          answer : {"none", "ok", "refused", "challenge"},
                          names : Procs \cup {Nobody, NoProof}]
    /\ requests \subseteq Messages
    /\ host \in [boot : Boots, bytes : 0..MaxBytes]
    /\ reigns \in [Procs -> SUBSET (Procs \cup {Nobody})] /\ rivals \in BOOLEAN

ReportsInit ==
    /\ agentSessions = [p \in Procs |-> NoRow] /\ metrics = NoSample
    /\ health = NoHealth /\ requests = {}
    /\ traffic = [b \in Boots |-> 0] /\ moved = [b \in Boots |-> 0]
    /\ proc = [p \in Procs |-> [at |-> "new", seq |-> 0, state |-> "starting",
                                stateSeq |-> 0]]
    /\ call = [p \in Procs |-> [k \in ReportKinds |-> NoCall]]
    /\ host = [boot |-> 1, bytes |-> 0] /\ reigns = [p \in Procs |-> {}] /\ rivals = FALSE

Owners == {p \in Procs : agentSessions[p].active}
Owner == IF Owners = {} THEN Nobody ELSE CHOOSE p \in Owners : TRUE
Alive(p) == proc[p].at \notin {"new", "gone"}

-----------------------------------------------------------------------------
(* The host and the processes on it *)

Transfer ==
    /\ host.bytes < MaxBytes
    /\ host' = [host EXCEPT !.bytes = @ + 1] /\ moved' = [moved EXCEPT ![host.boot] = @ + 1]
    /\ UNCHANGED <<serverVars, proc, call, requests, lives, elsewhere>>

\* Its requests may still arrive.
Gone(p) == [proc[p] EXCEPT !.at = IF @ = "new" THEN "new" ELSE "gone"]

Exit(p) ==
    /\ Alive(p)
    /\ proc' = [proc EXCEPT ![p] = Gone(p)]
    /\ call' = [call EXCEPT ![p] = [k \in ReportKinds |-> NoCall]]
    /\ UNCHANGED <<serverVars, requests, host, moved, lives, elsewhere>>

\* The counters start again, under another identity.
Reboot ==
    /\ host.boot < MaxBoot
    /\ host' = [boot |-> host.boot + 1, bytes |-> 0]
    /\ proc' = [p \in Procs |-> Gone(p)]
    /\ call' = [p \in Procs |-> [k \in ReportKinds |-> NoCall]]
    /\ UNCHANGED <<serverVars, requests, moved, lives, elsewhere>>

\* A process draws its session and begins with generation 1.
Start(p) ==
    /\ proc[p].at = "new" /\ \A q \in Procs : q < p => proc[q].at # "new"
    /\ proc' = [proc EXCEPT ![p] = [at |-> "idle", seq |-> 1,
                                    state |-> "starting", stateSeq |-> 1]]
    /\ reigns' = [reigns EXCEPT ![p] = {Owner}] /\ rivals' = (rivals \/ \E q \in Procs : Alive(q))
    /\ UNCHANGED <<serverVars, call, requests, host, moved, elsewhere>>

\* agentHealth.next: a new state, or a report, takes the next generation.
Says(p, at, state) ==
    /\ proc[p].seq < MaxSeq
    /\ proc' = [proc EXCEPT ![p] = [at |-> at, seq |-> @.seq + 1, state |-> state,
                                    stateSeq |-> @.seq + 1]]

\* A failure stays to be told while the next collection goes on.
BeginCollect(p) ==
    /\ proc[p].at = "idle" /\ call[p].report = NoCall
    /\ IF proc[p].state \in Failures
       THEN proc' = [proc EXCEPT ![p].at = "collecting"]
       ELSE Says(p, "collecting", "collecting")
    /\ UNCHANGED <<serverVars, call, requests, host, moved, lives, elsewhere>>

CollectFails(p) ==
    /\ proc[p].at = "collecting"
    /\ \E s \in {"collect_failed", "collect_timeout"} : Says(p, "idle", s)
    /\ UNCHANGED <<serverVars, call, requests, host, moved, lives, elsewhere>>

Post(p, m) ==
    /\ Cardinality(requests) < MaxWire
    /\ requests' = requests \cup {m}
    /\ call' = [call EXCEPT ![p][m.kind] =
                  [tries |-> IF @ = NoCall THEN 1 ELSE @.tries + 1, sent |-> m,
                   answer |-> "none", names |-> NoProof]]

\* The sample of this moment under a generation of its own, which heartbeats do
\* not carry before the report is answered.
SendReport(p) ==
    /\ proc[p].at = "collecting" /\ proc[p].seq < MaxSeq
    /\ proc' = [proc EXCEPT ![p] =
          [at |-> "idle", seq |-> proc[p].seq + 1,
           state |-> IF proc[p].state \in Failures THEN proc[p].state ELSE "reporting",
           stateSeq |-> proc[p].stateSeq]]
    /\ Post(p, [kind |-> "report", by |-> p, seq |-> proc[p].seq + 1, state |-> "ok",
                boot |-> host.boot, bytes |-> host.bytes, proof |-> NoProof])
    /\ UNCHANGED <<serverVars, host, moved, lives, elsewhere>>

\* A collection that takes too long is told as such, by the heartbeat.
CollectHangs(p) ==
    /\ proc[p].at = "collecting" /\ proc[p].state # "collect_timeout"
    /\ Says(p, "collecting", "collect_timeout")
    /\ UNCHANGED <<serverVars, call, requests, host, moved, lives, elsewhere>>

\* Reports that succeed make heartbeats needless; how long ago is left open.
SendHeartbeat(p) ==
    /\ Alive(p) /\ call[p].heartbeat = NoCall
    /\ Post(p, [kind |-> "heartbeat", by |-> p, seq |-> proc[p].stateSeq,
                state |-> proc[p].state, boot |-> 0, bytes |-> 0, proof |-> NoProof])
    /\ UNCHANGED <<serverVars, proc, host, moved, lives, elsewhere>>

\* stateRequest: a challenge is echoed, twice at most.
Echo(p, k) ==
    /\ call[p][k] # NoCall /\ call[p][k].answer = "challenge" /\ call[p][k].tries < 3
    /\ Post(p, [call[p][k].sent EXCEPT !.proof = call[p][k].names])
    /\ UNCHANGED <<serverVars, proc, host, moved, lives, elsewhere>>

\* The request is answered, or given up after fifteen seconds.
Ends(p, k) ==
    /\ call[p][k] # NoCall
    /\ call[p][k].answer = "challenge" => call[p][k].tries = 3
    /\ call' = [call EXCEPT ![p][k] = NoCall]

ReportEnds(p) ==
    /\ Ends(p, "report")
    /\ Says(p, proc[p].at, IF call[p].report.answer = "ok" THEN "ok" ELSE "report_failed")
    /\ UNCHANGED <<serverVars, requests, host, moved, lives, elsewhere>>

HeartbeatEnds(p) ==
    /\ Ends(p, "heartbeat")
    /\ UNCHANGED <<serverVars, proc, requests, host, moved, lives, elsewhere>>

-----------------------------------------------------------------------------
(* The server *)

\* Only a process that still waits for the very request hears the answer.
Answered(m, answer, names) ==
    IF call[m.by][m.kind] # NoCall /\ call[m.by][m.kind].sent = m
    THEN [call EXCEPT ![m.by][m.kind] =
            [tries |-> call[m.by][m.kind].tries, sent |-> m, answer |-> answer, names |-> names]]
    ELSE call

Knows(m) == agentSessions[m.by] # NoRow

\* Mutant: what a process said earlier is taken when it arrives.
CurrentAnyhow(m) == Knows(m) /\ agentSessions[m.by].active

\* A session that was replaced, or a generation older than the last, is let drop
\* and answered as if it had been taken.
Current(m) == Knows(m) /\ agentSessions[m.by].active /\ m.seq >= agentSessions[m.by].seq

\* Mutant: any challenge will do.
ConfirmedOnce(m) == ~Knows(m) /\ m.proof # NoProof

\* A session the server does not know echoes the challenge for the owner of now.
Confirmed(m) == ~Knows(m) /\ m.proof = Owner

Challenge(m) ==
    /\ ~Knows(m) /\ ~Confirmed(m)
    /\ call' = Answered(m, "challenge", Owner)
    /\ UNCHANGED <<serverVars, lives>>

DropStale(m) ==
    /\ Knows(m) /\ ~Current(m)
    /\ call' = Answered(m, "ok", NoProof)
    /\ UNCHANGED <<serverVars, lives>>

\* Less than three seconds after the last one of its kind: the transaction is
\* rolled back, the change of owner with it.
TooSoon(m) ==
    /\ Current(m) \/ Confirmed(m)
    /\ IF m.kind = "report" THEN metrics # NoSample ELSE health # NoHealth
    /\ call' = Answered(m, "refused", NoProof)
    /\ UNCHANGED <<serverVars, lives>>

\* acceptAgentState: the owner's watermark, or a new owner.
Accept(m) ==
    /\ Current(m) \/ Confirmed(m)
    /\ agentSessions' = [p \in Procs |->
          IF p = m.by THEN [active |-> TRUE, seq |-> m.seq]
          ELSE [active |-> FALSE, seq |-> agentSessions[p].seq]]
    /\ reigns' = [p \in Procs |-> IF Alive(p) THEN reigns[p] \cup {m.by} ELSE reigns[p]]
    /\ UNCHANGED rivals
    /\ call' = Answered(m, "ok", NoProof)

\* The counters count on unless their identity changed or they went back.
Increment(m) ==
    IF metrics # NoSample /\ m.boot = metrics.boot /\ m.bytes >= metrics.bytes
    THEN m.bytes - metrics.bytes ELSE 0

Sampled(m) ==
    /\ metrics' = [by |-> m.by, seq |-> m.seq, boot |-> m.boot, bytes |-> m.bytes]
    /\ traffic' = [traffic EXCEPT ![m.boot] = @ + Increment(m)]

\* Mutant: the diagnostics of before a report stay.
ReportKeepsHealth(m) ==
    /\ m.kind = "report" /\ Accept(m) /\ Sampled(m) /\ UNCHANGED health

\* Store.Report; a valid report ends the diagnostics of before it.
Report(m) ==
    /\ m.kind = "report" /\ Accept(m) /\ Sampled(m) /\ health' = NoHealth

\* Store.Heartbeat
Heartbeat(m) ==
    /\ m.kind = "heartbeat" /\ Accept(m)
    /\ health' = [by |-> m.by, seq |-> m.seq, state |-> m.state]
    /\ UNCHANGED <<metrics, traffic>>

Serve(m) ==
    /\ m \in requests /\ requests' = requests \ {m}
    /\ Challenge(m) \/ DropStale(m) \/ TooSoon(m) \/ Report(m) \/ Heartbeat(m)
    /\ UNCHANGED <<proc, host, moved, elsewhere>>

Lose(m) ==
    /\ requests' = requests \ {m}
    /\ UNCHANGED <<serverVars, agentVars, lives, elsewhere>>

UnderWay(p) ==
    {m \in requests : m.by = p} \cup {call[p][k].sent : k \in {k \in ReportKinds : call[p][k] # NoCall}}

\* Clean: a replaced session is forgotten seven days after the last word the server
\* took of it.  What it had under way then has ended long ago; its process may still
\* run, and say more.
ForgetSession(p) ==
    /\ agentSessions[p] # NoRow /\ ~agentSessions[p].active
    /\ \A m \in UnderWay(p) : m.seq >= agentSessions[p].seq
    /\ Alive(p) => proc[p].stateSeq >= agentSessions[p].seq
    /\ agentSessions' = [agentSessions EXCEPT ![p] = NoRow]
    /\ UNCHANGED <<metrics, health, traffic, agentVars, requests, lives, elsewhere>>

-----------------------------------------------------------------------------
(* Properties *)

\* No byte is counted twice, whatever is lost, delayed past the exit of its
\* process or interrupted by restarts of the Agent and of its host, as long as no
\* two processes report at the same time (agent.go:50-64, agent_state.go:14-15).
TrafficNotTwice == rivals \/ \A b \in Boots : traffic[b] <= moved[b]

\* What the panel shows of the Agent is the owner's word, and a diagnostic is
\* shown only if its process gave it after the last sample it delivered
\* (agent.go:70-75, heartbeat.go:14-18 of the Agent).
DiagnosticsNewer ==
    health # NoHealth =>
      /\ health.by = Owner
      /\ metrics.by = Owner => health.seq > metrics.seq

\* The node passes only to a process that lived under the owner it replaces: a
\* request of one that had exited before cannot take it (agent_state.go:35-37).
OwnerSawPredecessor ==
    [][Owner' # Owner => Owner \in reigns[Owner']]_reportVars

\* What the panel derives from reports is right: the traffic of a node, and what
\* it says of the node's Agent.
ReportsTrue == TrafficNotTwice /\ DiagnosticsNewer

=============================================================================

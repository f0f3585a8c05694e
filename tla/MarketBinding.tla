---------------------------- MODULE MarketBinding ----------------------------
(***************************************************************************)
(* The binding of this server to an account of TZA-CC, the plugin market   *)
(* (internal/market/instance.go, Client.call and send of market.go): the   *)
(* device flow, polled by every open panel, the token file, the calls that *)
(* carry the token and the unbinding, all of them concurrent.  A flow      *)
(* stands for its device code and for the token it yields; a token is kept *)
(* with the CC it is of, and --cc-url may name another after a restart.    *)
(*                                                                         *)
(* TZA-CC itself is external: a code yields one token once its user has    *)
(* confirmed it, and a user may unbind an instance there at any time.      *)
(***************************************************************************)
EXTENDS Integers, FiniteSets

CONSTANTS CCs, FirstCC,  \* the markets there are, the one configured at first
          Callers,     \* concurrent calls that carry the token
          MaxFlows,    \* bound: flows begun
          MaxNow,      \* bound: time
          Lifetime,    \* of a device code
          MaxInterval  \* the longest interval CC may ask for

VARIABLES base,    \* --cc-url of the running server
          file,    \* cc-instance: the flow whose token it holds, or 0
          pending, \* Client.pending: [flow, next, interval, expires], or NoFlow
          flow,    \* on CC, per flow: its market and what became of it
          begun,   \* flows begun so far
          poll,    \* Poll, which pollMu runs one at a time
          call,    \* per caller: the request it has under way
          leave,   \* Disconnect
          now,
          sent,      \* history: tokens and the markets they were sent to
          cancelled, \* history: flows given up by the administrator
          dropped,   \* history: tokens deleted, though nobody asked for it
          elsewhere  \* the rest of the system

ccVars == <<flow, begun>>
historyVars == <<sent, cancelled, dropped>>
bindingVars == <<base, file, pending, ccVars, poll, call, leave, now, historyVars>>

NoFlow == [flow |-> 0]
Idle == [at |-> "idle"]
Flows == 1..MaxFlows

\* Mutant: the token of the file, whichever market it is of.
TokenOfAny == file

\* token: what is sent to the market configured now, or 0.
Token == IF file # 0 /\ flow[file].cc = base THEN file ELSE 0

Sends(t) == sent' = IF t = 0 THEN sent ELSE sent \cup {<<t, base>>}

\* What the administrator gave up is not to be bound any more.
GivesUp == cancelled' = cancelled \cup ({pending.flow} \ {0})

-----------------------------------------------------------------------------
(* Connect and Poll *)

\* Connect: a flow that was pending is replaced.
Connect ==
    /\ begun < MaxFlows
    /\ begun' = begun + 1 /\ flow' = [flow EXCEPT ![begun'] = [cc |-> base, state |-> "waiting"]]
    /\ pending' = [flow |-> begun', next |-> now + 1, interval |-> 1,
                   expires |-> now + Lifetime]
    /\ GivesUp
    /\ UNCHANGED <<base, file, poll, call, leave, now, sent, dropped, elsewhere>>

\* An expired flow ends; one that is not due is not asked about.
PollExpired ==
    /\ poll = Idle /\ pending # NoFlow /\ pending.expires <= now
    /\ pending' = NoFlow
    /\ UNCHANGED <<base, file, ccVars, poll, call, leave, now, historyVars, elsewhere>>

BeginPoll ==
    /\ poll = Idle /\ pending # NoFlow
    /\ now < pending.expires /\ pending.next <= now
    /\ poll' = [at |-> "asking", flow |-> pending.flow]
    /\ UNCHANGED <<base, file, pending, ccVars, call, leave, now, historyVars, elsewhere>>

\* POST device/token on CC, once: a confirmed code yields its token.
CCAnswers ==
    /\ poll.at = "asking"
    /\ LET f == flow[poll.flow] IN
       \E answer \in CASE f.state = "waiting" -> {"pending", "slow_down"}
                       [] f.state = "confirmed" -> {"token"}
                       [] f.state = "expired" -> {"gone"}
                       [] OTHER -> {"refused"} :
          /\ poll' = [at |-> "answered", flow |-> poll.flow, answer |-> answer]
          /\ flow' = IF answer = "token" THEN [flow EXCEPT ![poll.flow].state = "issued"]
                     ELSE flow
    /\ UNCHANGED <<base, file, pending, begun, call, leave, now, historyVars, elsewhere>>

\* CC cannot be reached, or its answer is lost after it acted.
CCSilent ==
    /\ poll.at \in {"asking", "answered"}
    /\ poll' = [at |-> "answered", flow |-> poll.flow, answer |-> "none"]
    /\ UNCHANGED <<base, file, pending, ccVars, call, leave, now, historyVars, elsewhere>>

\* Mutant: the answer is taken whichever flow is pending now.
TakeAnswerOfAny(saved) ==
    /\ poll.at = "answered" /\ poll' = Idle
    /\ IF pending = NoFlow /\ poll.answer # "token" THEN UNCHANGED <<file, pending>>
       ELSE CASE poll.answer = "token" -> file' = poll.flow /\ pending' = NoFlow
              [] poll.answer \in {"gone", "refused"} -> pending' = NoFlow /\ UNCHANGED file
              [] OTHER -> /\ pending' = [pending EXCEPT !.next = now + 1]
                          /\ UNCHANGED file
    /\ UNCHANGED <<base, ccVars, call, leave, now, historyVars, elsewhere>>

\* The rest of Poll, in one critical section: an answer to a flow that is no
\* longer pending is nobody's; slow_down lengthens the interval; the binding
\* is written and renamed in, and stays pending where that fails.
TakeAnswer(saved) ==
    /\ poll.at = "answered" /\ poll' = Idle
    /\ IF pending.flow # poll.flow THEN UNCHANGED <<file, pending>>
       ELSE CASE poll.answer = "token" /\ saved -> file' = poll.flow /\ pending' = NoFlow
              [] poll.answer = "token" /\ ~saved -> UNCHANGED <<file, pending>>
              [] poll.answer \in {"gone", "refused"} -> pending' = NoFlow /\ UNCHANGED file
              [] poll.answer = "slow_down" ->
                   LET i == IF pending.interval < MaxInterval THEN pending.interval + 1
                            ELSE MaxInterval
                   IN pending' = [flow |-> pending.flow, next |-> now + i, interval |-> i,
                                    expires |-> pending.expires]
                      /\ UNCHANGED file
              [] OTHER -> /\ pending' = [pending EXCEPT !.next = now + pending.interval]
                          /\ UNCHANGED file
    /\ UNCHANGED <<base, ccVars, call, leave, now, historyVars, elsewhere>>

-----------------------------------------------------------------------------
(* Calls that carry the token *)

BeginCall(c) ==
    /\ call[c] = Idle /\ call' = [call EXCEPT ![c] = [at |-> "sent", token |-> Token]]
    /\ Sends(Token)
    /\ UNCHANGED <<base, file, pending, ccVars, poll, leave, now, cancelled, dropped, elsewhere>>

\* CC judges the token when the request arrives, the answer comes later.
CCJudges(c) ==
    /\ call[c].at = "sent"
    /\ call' = IF call[c].token # 0 /\ flow[call[c].token].state # "issued"
               THEN [call EXCEPT ![c].at = "401"] ELSE [call EXCEPT ![c] = Idle]
    /\ UNCHANGED <<base, file, pending, ccVars, poll, leave, now, historyVars, elsewhere>>

CallFails(c) ==
    /\ call[c] # Idle /\ call' = [call EXCEPT ![c] = Idle]
    /\ UNCHANGED <<base, file, pending, ccVars, poll, leave, now, historyVars, elsewhere>>

\* Mutant: whatever is bound by now is forgotten.
DropAnyToken(c) ==
    /\ call[c].at = "401" /\ call' = [call EXCEPT ![c] = Idle]
    /\ file' = 0 /\ dropped' = dropped \cup ({file} \ {0})
    /\ UNCHANGED <<base, pending, ccVars, poll, leave, now, sent, cancelled, elsewhere>>

\* dropToken, after which the request is repeated without a token.
DropToken(c) ==
    /\ call[c].at = "401" /\ call' = [call EXCEPT ![c] = Idle]
    /\ IF file = call[c].token THEN file' = 0 /\ dropped' = dropped \cup {file}
       ELSE UNCHANGED <<file, dropped>>
    /\ UNCHANGED <<base, pending, ccVars, poll, leave, now, sent, cancelled, elsewhere>>

-----------------------------------------------------------------------------
(* Disconnect *)

BeginDisconnect ==
    /\ leave = Idle /\ pending' = NoFlow /\ GivesUp
    /\ leave' = IF file = 0 THEN Idle
                ELSE [at |-> IF Token = file THEN "telling" ELSE "deleting", token |-> file]
    /\ Sends(Token)
    /\ UNCHANGED <<base, file, ccVars, poll, call, now, dropped, elsewhere>>

\* CC revokes the token, or says nothing: the local file goes all the same.
TellCC(heard) ==
    /\ leave.at = "telling" /\ leave' = [leave EXCEPT !.at = "deleting"]
    /\ flow' = IF heard /\ flow[leave.token].state = "issued"
               THEN [flow EXCEPT ![leave.token].state = "revoked"] ELSE flow
    /\ UNCHANGED <<base, file, pending, begun, poll, call, now, historyVars, elsewhere>>

\* A binding made meanwhile stays.
DeleteBinding ==
    /\ leave.at = "deleting" /\ leave' = Idle
    /\ file' = IF file = leave.token THEN 0 ELSE file
    /\ UNCHANGED <<base, pending, ccVars, poll, call, now, historyVars, elsewhere>>

-----------------------------------------------------------------------------
(* CC's users, time, restarts *)

Confirm(f, state) ==
    /\ flow[f].state = "waiting" /\ flow' = [flow EXCEPT ![f].state = state]
    /\ UNCHANGED <<base, file, pending, begun, poll, call, leave, now, historyVars, elsewhere>>

Revoke(f) ==
    /\ flow[f].state = "issued" /\ flow' = [flow EXCEPT ![f].state = "revoked"]
    /\ UNCHANGED <<base, file, pending, begun, poll, call, leave, now, historyVars, elsewhere>>

PassTime ==
    /\ now < MaxNow /\ now' = now + 1
    /\ UNCHANGED <<base, file, pending, ccVars, poll, call, leave, historyVars, elsewhere>>

\* The server starts again, with the same market or another: only the file is
\* left.
Restart(cc) ==
    /\ base' = cc /\ pending' = NoFlow /\ poll' = Idle /\ leave' = Idle
    /\ call' = [c \in Callers |-> Idle]
    /\ <<base, pending, poll, leave, call>>' # <<base, pending, poll, leave, call>>
    /\ UNCHANGED <<file, ccVars, now, historyVars, elsewhere>>

BindingInit ==
    /\ base = FirstCC /\ file = 0 /\ pending = NoFlow /\ begun = 0 /\ now = 0
    /\ flow = [f \in Flows |-> [cc |-> FirstCC, state |-> "none"]]
    /\ poll = Idle /\ leave = Idle /\ call = [c \in Callers |-> Idle]
    /\ sent = {} /\ cancelled = {} /\ dropped = {}

BindingTypeOK ==
    /\ base \in CCs /\ file \in 0..MaxFlows /\ begun \in 0..MaxFlows /\ now \in 0..MaxNow
    /\ pending = NoFlow \/ pending \in [flow : Flows, next : Nat, interval : 1..MaxInterval,
                                        expires : Nat]
    /\ flow \in [Flows -> [cc : CCs, state : {"none", "waiting", "confirmed", "denied",
                                              "expired", "issued", "revoked"}]]
    /\ poll = Idle \/ poll.flow \in Flows
    /\ \A c \in Callers : call[c] = Idle \/ call[c].token \in 0..MaxFlows
    /\ leave = Idle \/ leave.token \in Flows

\* A token is only ever sent to the market it is of.
TokensStayHome == \A s \in sent : flow[s[1]].cc = s[2]

\* A flow the administrator cancelled or began anew does not bind the server any
\* more, though its answer may be under way; what is bound CC once confirmed.
CancelledUnbound ==
    file # 0 => file \notin cancelled /\ flow[file].state \in {"issued", "revoked"}

\* A binding is only dropped unasked after CC refused that very token, not one
\* from before.
DroppedRefused == \A t \in dropped : flow[t].state # "issued"

BindingTrue == TokensStayHome /\ CancelledUnbound /\ DroppedRefused

=============================================================================

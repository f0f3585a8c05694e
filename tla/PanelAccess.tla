---------------------------- MODULE PanelAccess ----------------------------
(***************************************************************************)
(* The administrator's account, browser sessions and the pacing of logins  *)
(* (internal/httpapi/api.go, login_limit.go, admin.go; internal/account).  *)
(* Sessions and pacing live in the memory of the server, the account in a  *)
(* file that a command in the terminal replaces while the server runs.     *)
(*                                                                         *)
(* Each saved password has a hash of its own, numbered here in the order   *)
(* they are saved.  Time counts in the interval between anonymous logins.  *)
(***************************************************************************)
EXTENDS Integers, FiniteSets

CONSTANTS Browsers,
          MaxVersion,  \* bound: passwords saved
          MaxToken,    \* bound: cookies issued
          MaxSessions, \* sessions the server keeps, 100 in the code
          TTL,         \* life of a session
          Minute,      \* the window of the pacing
          Shared, Own, \* logins to a minute: anonymous, of a known device
          MaxNow       \* bound: time

VARIABLES account,  \* the password in force
          saved,    \* number of passwords saved so far
          sessions, \* per token: [expires, hash, proof], or NoSession
          issued,   \* cookies issued so far, of sessions and of devices
          browser,  \* per browser: its cookies and its request
          pace,     \* loginNext: next virtual start per bucket
          failures, \* loginFailures and loginWindow
          now,
          tries,    \* history: [bucket, at] of verified passwords, with a number
          elsewhere

accessVars == <<account, saved, sessions, issued, browser, pace, failures, now, tries>>

Versions == 1..MaxVersion
Tokens == 1..MaxToken
NoSession == [expires |-> 0]
NoToken == 0
Anyone == 0 \* the bucket of those without a valid device cookie
Buckets == {Anyone} \cup Tokens

Limit(b) == IF b = Anyone THEN Shared ELSE Own
Interval(b) == Minute \div Limit(b)

AccessTypeOK ==
    /\ account \in 1..saved /\ saved \in Versions /\ issued \in 0..MaxToken /\ now \in 0..MaxNow
    /\ \A t \in Tokens : sessions[t] = NoSession \/
          sessions[t] \in [expires : Nat, hash : Versions, proof : Versions]
    /\ \A b \in Browsers :
          /\ browser[b].cookie \in 0..issued /\ browser[b].device \in 0..issued
          /\ browser[b].signed \in 0..MaxVersion
          /\ browser[b].pc \in {"idle", "login", "verified", "changing", "saved"}
    /\ pace \in [Buckets -> 0..(MaxNow + Minute)]
    /\ failures.window \in 0..MaxNow
    /\ \A try \in tries : try.bucket \in Buckets /\ try.at \in 0..now

AccessInit ==
    /\ account = 1 /\ saved = 1 /\ issued = 0 /\ now = 0 /\ tries = {}
    /\ sessions = [t \in Tokens |-> NoSession]
    /\ browser = [b \in Browsers |-> [cookie |-> NoToken, device |-> NoToken, signed |-> 0,
                                      pc |-> "idle", version |-> 0]]
    /\ pace = [k \in Buckets |-> 0] /\ failures = [window |-> 0, count |-> [k \in Buckets |-> 0]]

-----------------------------------------------------------------------------
(* Pacing *)

\* A request of this browser goes on, or ends, with this password in hand.
Goes(b, pc, version) ==
    [browser EXCEPT ![b] = [cookie |-> browser[b].cookie, device |-> browser[b].device,
                            signed |-> browser[b].signed, pc |-> pc, version |-> version]]

\* loginBucket: a device cookie counts while the password it was signed for is
\* in force.
Bucket(b) == IF browser[b].device # NoToken /\ browser[b].signed = account
             THEN browser[b].device ELSE Anyone

\* Mutant: with the window the reservations are dropped.
ForgetPace(p) == [k \in Buckets |-> 0]

\* resetLoginWindow: what was reserved for later survives.
KeepPace(p) == [k \in Buckets |-> IF p[k] <= now THEN 0 ELSE p[k]]

NewWindow == now - failures.window >= Minute
Paced == IF NewWindow THEN KeepPace(pace) ELSE pace
Counted == IF NewWindow THEN [window |-> now, count |-> [k \in Buckets |-> 0]] ELSE failures

NextStart(k) == (IF Paced[k] < now THEN now ELSE Paced[k]) + Interval(k)

\* reserveLogin, before a password is verified; or it is refused at once.
Reserve(b, version) ==
    /\ browser[b].pc = "idle"
    /\ failures' = Counted
    /\ LET k == Bucket(b) IN
         IF NextStart(k) - now <= Minute
         THEN /\ pace' = [Paced EXCEPT ![k] = NextStart(k)]
              /\ tries' = tries \cup {[bucket |-> k, at |-> now, nth |-> Cardinality(tries)]}
              /\ browser' = Goes(b, "login", version)
         ELSE pace' = Paced /\ UNCHANGED <<tries, browser>>
    /\ UNCHANGED <<account, saved, sessions, issued, now, elsewhere>>

-----------------------------------------------------------------------------
(* Login *)

Idle(b) == Goes(b, "idle", 0)

\* loginLimited on a wrong password
Failed(b) == [Counted EXCEPT !.count[Bucket(b)] = @ + 1]

\* verifyLogin and checkAccount; all verifiers may be busy for too long.
Verify(b) ==
    /\ browser[b].pc = "login"
    /\ IF browser[b].version = account
       THEN browser' = [browser EXCEPT ![b].pc = "verified"] /\ UNCHANGED failures
       ELSE browser' = Idle(b) /\ failures' = Failed(b)
    /\ UNCHANGED <<account, saved, sessions, issued, pace, now, tries, elsewhere>>

TooBusy(b) ==
    /\ browser[b].pc = "login"
    /\ browser' = Idle(b)
    /\ UNCHANGED <<account, saved, sessions, issued, pace, failures, now, tries, elsewhere>>

Live == {t \in Tokens : sessions[t] # NoSession /\ now <= sessions[t].expires}

\* At the cap the session closest to its end gives way.
Remaining == IF Cardinality(Live) < MaxSessions THEN Live
        ELSE Live \ {CHOOSE t \in Live : \A other \in Live :
                        sessions[t].expires <= sessions[other].expires}

\* setDeviceCookie: only for the password in force.
SignedIn(b, cookie, hash) ==
    [cookie |-> cookie,
     device |-> IF account = hash THEN issued + 1 ELSE browser[b].device,
     signed |-> IF account = hash THEN hash ELSE browser[b].signed,
     pc |-> "idle", version |-> 0]

Issue(b, hash) ==
    /\ issued < MaxToken /\ issued' = issued + 1
    /\ sessions' = [t \in Tokens |->
          IF t = issued + 1 THEN [expires |-> now + TTL, hash |-> hash, proof |-> browser[b].version]
          ELSE IF t \in Remaining THEN sessions[t] ELSE NoSession]
    /\ browser' = [browser EXCEPT ![b] = SignedIn(b, issued + 1, hash)]
    /\ UNCHANGED <<account, saved, pace, failures, now, tries, elsewhere>>

\* Mutant: the session is of the account as it is by now.
SessionOfNow(b) == browser[b].pc = "verified" /\ Issue(b, account)

\* startSession: bound to the password that was verified; a device cookie only
\* if that is still the password in force.
StartSession(b) == browser[b].pc = "verified" /\ Issue(b, browser[b].version)

-----------------------------------------------------------------------------
(* Requests of the administrator *)

Session(b) == IF browser[b].cookie = NoToken THEN NoSession ELSE sessions[browser[b].cookie]
Fresh(b) == Session(b) # NoSession /\ now < Session(b).expires

\* isAdmin
Admitted(b) == Fresh(b) /\ Session(b).hash = account

\* A session of another password is dropped when it is presented.
DropSession(b) ==
    /\ Fresh(b) /\ ~Admitted(b)
    /\ sessions' = [sessions EXCEPT ![browser[b].cookie] = NoSession]
    /\ UNCHANGED <<account, saved, issued, browser, pace, failures, now, tries, elsewhere>>

Logout(b) ==
    /\ browser[b].pc = "idle" /\ Admitted(b)
    /\ sessions' = [sessions EXCEPT ![browser[b].cookie] = NoSession]
    /\ browser' = [browser EXCEPT ![b].cookie = NoToken]
    /\ UNCHANGED <<account, saved, issued, pace, failures, now, tries, elsewhere>>

\* PUT account: the password in force is asked for, within the limit of failures.
BeginChange(b, version) ==
    /\ browser[b].pc = "idle" /\ Admitted(b)
    /\ Counted.count[Bucket(b)] <= Limit(Bucket(b))
    /\ IF version = account
       THEN browser' = [browser EXCEPT ![b].pc = "changing"] /\ failures' = Counted
       ELSE failures' = Failed(b) /\ UNCHANGED browser
    /\ pace' = Paced
    /\ UNCHANGED <<account, saved, sessions, issued, now, tries, elsewhere>>

\* SaveWithHash replaces the file as a whole.
SaveAccount(b) ==
    /\ browser[b].pc = "changing" /\ saved < MaxVersion
    /\ account' = saved + 1 /\ saved' = saved + 1
    /\ browser' = Goes(b, "saved", saved + 1)
    /\ UNCHANGED <<sessions, issued, pace, failures, now, tries, elsewhere>>

\* Mutant: the session stays of the account as it is by now.
DropOthersOfNow(b) ==
    /\ browser[b].pc = "saved"
    /\ sessions' = [t \in Tokens |->
          IF t # browser[b].cookie \/ sessions[t] = NoSession THEN NoSession
          ELSE [sessions[t] EXCEPT !.hash = account, !.proof = browser[b].version]]
    /\ browser' = Idle(b)
    /\ UNCHANGED <<account, saved, issued, pace, failures, now, tries, elsewhere>>

\* dropOtherSessions: this browser stays signed in with the password it set.
DropOtherSessions(b) ==
    /\ browser[b].pc = "saved"
    /\ sessions' = [t \in Tokens |->
          IF t # browser[b].cookie \/ sessions[t] = NoSession THEN NoSession
          ELSE [expires |-> sessions[t].expires, hash |-> browser[b].version,
                proof |-> browser[b].version]]
    /\ issued < MaxToken /\ issued' = issued + 1
    /\ browser' = [browser EXCEPT ![b] = SignedIn(b, browser[b].cookie, browser[b].version)]
    /\ UNCHANGED <<account, saved, pace, failures, now, tries, elsewhere>>

-----------------------------------------------------------------------------
(* The terminal, the server and time *)

\* resetPasswordCommand
ResetPassword ==
    /\ saved < MaxVersion
    /\ account' = saved + 1 /\ saved' = saved + 1
    /\ UNCHANGED <<sessions, issued, browser, pace, failures, now, tries, elsewhere>>

\* Handler begins without sessions; requests end with the process.
Restart ==
    /\ sessions' = [t \in Tokens |-> NoSession]
    /\ browser' = [b \in Browsers |-> [cookie |-> browser[b].cookie, device |-> browser[b].device,
                                        signed |-> browser[b].signed, pc |-> "idle", version |-> 0]]
    /\ pace' = [k \in Buckets |-> 0]
    /\ failures' = [window |-> 0, count |-> [k \in Buckets |-> 0]] /\ tries' = {}
    /\ UNCHANGED <<account, saved, issued, now, elsewhere>>

Wait ==
    /\ now < MaxNow /\ now' = now + 1
    /\ UNCHANGED <<account, saved, sessions, issued, browser, pace, failures, tries, elsewhere>>

-----------------------------------------------------------------------------
(* Properties *)

\* After the password was changed, in the panel or in the terminal, only those
\* are admitted who gave the new one or set it: a login that was verified before,
\* or a session kept through a change, does not outlive it (login_limit.go:154-156,
\* account.go:118-119).
AdmittedKnow ==
    \A b \in Browsers : Admitted(b) => Session(b).proof = account

\* In no stretch of time are more passwords of one bucket verified than its
\* burst and what was refilled since, whatever windows end in between
\* (login_limit.go:18-23, 99-100).
RateBounded ==
    \A first, last \in tries :
       first.bucket = last.bucket /\ first.at <= last.at =>
          Cardinality({t \in tries : t.bucket = first.bucket /\ t.at \in first.at..last.at})
             <= Limit(first.bucket) + (last.at - first.at) \div Interval(first.bucket)

\* Nobody stays in with an old password, nor guesses a new one faster than the
\* pace allows.
AccessTrue == AdmittedKnow /\ RateBounded

=============================================================================

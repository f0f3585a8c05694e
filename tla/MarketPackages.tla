--------------------------- MODULE MarketPackages ---------------------------
(***************************************************************************)
(* Packages from the market (internal/market/install.go, market.go,        *)
(* managers.go, version.go), the stores of plugins and themes they share   *)
(* with local uploads (internal/plugin, internal/theme) and the rule that  *)
(* keeps the plugin notifications use (internal/service/plugins.go).  A    *)
(* store replaces a package in several steps under its lock, each of which *)
(* may fail; the server may be killed between any two.  Requests of        *)
(* several administrators run at the same time.                            *)
(*                                                                         *)
(* An archive is what Inspect reads from it and what it is a digest of;    *)
(* versions are numbers.  What CC lists, grants and serves is external,    *)
(* and may be wrong.                                                       *)
(***************************************************************************)
EXTENDS Integers, FiniteSets, Sequences

CONSTANTS None,
          Callers,   \* requests of administrators
          Stores,    \* subset of {"plugin", "theme"}
          Ids,       \* of packages
          Manager,   \* OfficialExecutorID
          Listings,  \* what CC may answer for a package: its releases, in order
          Grants,    \* what CC may hand out: signature, archive, receipt
          Probe,     \* version of this server
          TrustedKeys,
          MaxInstalls, \* bound: installations begun
          MaxFaults    \* bound: kills and failures of the disk

VARIABLES package,  \* per store and id: what its directory holds, or None
          origin,   \* per store and id: the version .market records, or 0
          manager,  \* the executor's manager: its version, or 0
          channel,  \* the plugin notifications go through, or None
          job,      \* per caller: the request under way
          lock,     \* per store: who holds it, or None
          offers,   \* the updates shown last: [id, version, latest]
          confirmed, \* receipts CC was told of
          completed, \* history: receipts whose installation was complete
          torn,      \* history: packages whose last replacement was cut off
          removed,   \* history: packages removed since their last installation
          lost,      \* history: packages moved aside that could not be brought back
          used,      \* installations and faults so far
          elsewhere  \* the rest of the system

storeVars == <<package, origin, torn, removed, lost>>
packageVars == <<storeVars, manager, channel, job, lock, offers, confirmed,
                 completed, used>>

Resting == [at |-> "idle"]
Slots == Stores \X Ids

-----------------------------------------------------------------------------
(* Versions: version.go *)

Holds(op, have, want) ==
    CASE op = ">=" -> have >= want
      [] op = ">" -> have > want
      [] op = "<=" -> have <= want
      [] op = "<" -> have < want
      [] op = "=" -> have = want

\* Compatible: every comparison of the range holds; one that cannot be read fits
\* nothing, a hand-built server fits everything.
Compatible(range, probe) ==
    \/ range = {} \/ probe = None
    \/ \A c \in range : c.op # "unread" /\ Holds(c.op, probe, c.version)

\* Package: CC's verdict, where it gives one, and the server's own must agree.
Installable(release) == Compatible(release.range, Probe) /\ release.told # "no"

\* pick: the release to install of a listing, None where there is none.  CC
\* decides where it lists nothing.
Pick(listing, want) ==
    LET fit == {i \in DOMAIN listing :
                  Installable(listing[i]) /\ (want = 0 \/ listing[i].version = want)}
    IN IF listing = <<>> THEN want
       ELSE IF fit = {} THEN None
       ELSE listing[CHOOSE i \in fit : \A j \in fit : i <= j].version

-----------------------------------------------------------------------------
(* Install: what is checked before anything is written *)

\* Mutant: what the archive says it is is not compared.
VetSignatureOnly(id, type, version, g) ==
    /\ g.package = id /\ (version = 0 \/ g.version = version)
    /\ g.key \in TrustedKeys /\ g.signed = g.archive

\* The grant names the package and version, is signed by a trusted key over the
\* very archive that came, and the archive is of that type, id and version.
Vetted(id, type, version, g) ==
    /\ g.package = id /\ (version = 0 \/ g.version = version)
    /\ g.key \in TrustedKeys /\ g.signed = g.archive
    /\ g.archive.type = type /\ g.archive.id = id /\ g.archive.version = g.version

Spend(kind, max) == used[kind] < max /\ used' = [used EXCEPT ![kind] = @ + 1]

\* POST market install: the listing, the grant and the archive, fetched and
\* checked; whatever is refused ends here.
Fetch(c, id, listing, want, g) ==
    /\ job[c] = Resting /\ Spend("installs", MaxInstalls)
    /\ Pick(listing.releases, want) # None
    /\ Vetted(id, listing.type, Pick(listing.releases, want), g)
    /\ job' = [job EXCEPT ![c] =
                 [at |-> IF listing.type = "executor" THEN "compare" ELSE "waiting",
                  store |-> listing.type, id |-> id, version |-> g.version,
                  market |-> TRUE, receipt |-> g.receipt, old |-> None]]
    /\ UNCHANGED <<storeVars, manager, channel, lock, offers, confirmed, completed, elsewhere>>

\* A local upload goes to the same store.
Upload(c, store, id, version) ==
    /\ job[c] = Resting /\ Spend("installs", MaxInstalls)
    /\ job' = [job EXCEPT ![c] = [at |-> "waiting", store |-> store, id |-> id,
                                  version |-> version, market |-> FALSE, receipt |-> None,
                                  old |-> None]]
    /\ UNCHANGED <<storeVars, manager, channel, lock, offers, confirmed, completed, elsewhere>>

-----------------------------------------------------------------------------
(* Store.install, under the lock of the store *)

In(c, step) == job[c] # Resting /\ job[c].at = step
Goes(c, step) == job' = [job EXCEPT ![c].at = step]
Slot(c) == <<job[c].store, job[c].id>>
Unlock(c) == lock' = [lock EXCEPT ![job[c].store] = None]
Ends(c) == job' = [job EXCEPT ![c] = Resting] /\ Unlock(c)

rest == <<manager, channel, offers, confirmed, elsewhere>>

\* The new directory is written beside the store.
TakeStore(c) ==
    /\ In(c, "waiting") /\ lock[job[c].store] = None
    /\ lock' = [lock EXCEPT ![job[c].store] = c] /\ Goes(c, "aside")
    /\ UNCHANGED <<storeVars, completed, used, rest>>

\* What is installed is moved aside.
SetAside(c) ==
    /\ In(c, "aside")
    /\ job' = [job EXCEPT ![c] = [at |-> "place", store |-> @.store, id |-> @.id,
                                  version |-> @.version, market |-> @.market,
                                  receipt |-> @.receipt, old |-> package[Slot(c)]]]
    /\ package' = [package EXCEPT ![Slot(c)] = None]
    /\ UNCHANGED <<origin, torn, removed, lost, completed, lock, used, rest>>

Content(c) == [version |-> job[c].version, market |-> job[c].market]

Place(c) ==
    /\ In(c, "place") /\ package' = [package EXCEPT ![Slot(c)] = Content(c)]
    /\ Goes(c, "record") /\ removed' = removed \ {Slot(c)} /\ lost' = lost \ {Slot(c)}
    /\ UNCHANGED <<origin, torn, completed, lock, used, rest>>

\* Mutant: what was moved aside stays there.
FailsAside(c) ==
    /\ In(c, "aside") \/ In(c, "place")
    /\ Spend("faults", MaxFaults) /\ Ends(c)
    /\ UNCHANGED <<storeVars, completed, rest>>

\* The disk fails before the new directory is in: what was moved aside is renamed
\* back, and where that fails too nobody hears of it: it stays aside.
InstallFails(c) ==
    /\ In(c, "aside") \/ In(c, "place")
    /\ Spend("faults", MaxFaults) /\ Ends(c)
    /\ \/ /\ package' = IF In(c, "aside") THEN package
                        ELSE [package EXCEPT ![Slot(c)] = job[c].old]
          /\ UNCHANGED lost
       \/ /\ In(c, "place") /\ job[c].old # None
          /\ lost' = lost \cup {Slot(c)} /\ UNCHANGED package
    /\ UNCHANGED <<origin, torn, removed, completed, rest>>

\* Mutant: a local upload leaves the record of the release it replaced.
RecordMarketOnly(c) ==
    /\ In(c, "record")
    /\ origin' = IF job[c].market THEN [origin EXCEPT ![Slot(c)] = job[c].version] ELSE origin
    /\ torn' = torn \ {Slot(c)}
    /\ completed' = completed \cup ({job[c].receipt} \ {None})
    /\ job' = [job EXCEPT ![c] = IF job[c].market THEN [@ EXCEPT !.at = "confirm"] ELSE Resting]
    /\ Unlock(c)
    /\ UNCHANGED <<package, removed, lost, used, rest>>

\* setOrigin: the release, or for an upload none.
Record(c) ==
    /\ In(c, "record")
    /\ origin' = [origin EXCEPT ![Slot(c)] = IF job[c].market THEN job[c].version ELSE 0]
    /\ torn' = torn \ {Slot(c)}
    /\ completed' = completed \cup ({job[c].receipt} \ {None})
    /\ job' = [job EXCEPT ![c] = IF job[c].market THEN [@ EXCEPT !.at = "confirm"] ELSE Resting]
    /\ Unlock(c)
    /\ UNCHANGED <<package, removed, lost, used, rest>>

\* The package is in and its record is not: the error says so.
RecordFails(c) ==
    /\ In(c, "record") /\ Spend("faults", MaxFaults) /\ Ends(c)
    /\ torn' = torn \cup {Slot(c)}
    /\ UNCHANGED <<package, origin, removed, lost, completed, rest>>

\* confirmInstall; a failure is only logged.  The inventory it sends afterwards
\* changes nothing here.
ConfirmInstall(c, heard) ==
    /\ In(c, "confirm") /\ job' = [job EXCEPT ![c] = Resting]
    /\ confirmed' = confirmed \cup (IF heard THEN {job[c].receipt} \ {None} ELSE {})
    /\ UNCHANGED <<storeVars, manager, channel, lock, offers, completed, used, elsewhere>>

-----------------------------------------------------------------------------
(* The executor's manager: one record, replaced whole *)

\* installManager: no plugin or theme of that name; then the record.
CompareManager(c) ==
    /\ In(c, "compare")
    /\ IF \E s \in Stores : package[<<s, job[c].id>>] # None
       THEN job' = [job EXCEPT ![c] = Resting] ELSE Goes(c, "manager")
    /\ UNCHANGED <<storeVars, completed, lock, used, rest>>

InstallManager(c) ==
    /\ In(c, "manager") /\ job[c].id = Manager /\ manager' = job[c].version
    /\ job' = [job EXCEPT ![c] = Resting]
    /\ UNCHANGED <<storeVars, channel, lock, offers, confirmed, completed, used, elsewhere>>

RemoveManager ==
    /\ manager # 0 /\ manager' = 0
    /\ UNCHANGED <<storeVars, channel, job, lock, offers, confirmed, completed, used, elsewhere>>

-----------------------------------------------------------------------------
(* Removal *)

\* RemovePlugin: refused while notifications use it; a theme is removed at once.
BeginRemove(c, slot) ==
    /\ job[c] = Resting /\ Spend("installs", MaxInstalls)
    /\ slot[1] = "plugin" => channel # slot[2]
    /\ job' = [job EXCEPT ![c] = [at |-> "removing", store |-> slot[1], id |-> slot[2]]]
    /\ UNCHANGED <<storeVars, completed, lock, rest>>

\* Store.Remove: the directory is moved away, then the record goes.
MoveAway(c) ==
    /\ In(c, "removing") /\ lock[job[c].store] = None
    /\ IF package[Slot(c)] = None
       THEN job' = [job EXCEPT ![c] = Resting] /\ UNCHANGED <<storeVars, lock>>
       ELSE /\ package' = [package EXCEPT ![Slot(c)] = None]
            /\ removed' = removed \cup {Slot(c)} /\ torn' = torn \ {Slot(c)}
            /\ lock' = [lock EXCEPT ![job[c].store] = c]
            /\ Goes(c, "forget") /\ UNCHANGED <<origin, lost>>
    /\ UNCHANGED <<completed, used, rest>>

\* An error here is not looked at.
ForgetOrigin(c, failed) ==
    /\ In(c, "forget") /\ Ends(c)
    /\ IF failed THEN Spend("faults", MaxFaults) /\ UNCHANGED origin
       ELSE origin' = [origin EXCEPT ![Slot(c)] = 0] /\ UNCHANGED used
    /\ UNCHANGED <<package, torn, removed, lost, completed, rest>>

\* SaveNotification: only an installed plugin can be chosen.
ChooseChannel(id) ==
    /\ channel' = id /\ channel' # channel
    /\ id # None => package[<<"plugin", id>>] # None /\ lock["plugin"] = None
    /\ UNCHANGED <<storeVars, manager, job, lock, offers, confirmed, completed, used, elsewhere>>

-----------------------------------------------------------------------------
(* Updates *)

\* installed, which reads the stores one after the other, here at once: of each id
\* the plugin, else the theme, else the manager, with the version its record names.
Shown(s, id) == package[<<s, id>>] # None

\* Mutant: local uploads are sent as well.
MarketVersionOrLocal(id) ==
    LET holders == {s \in Stores : Shown(s, id)}
        s == IF "plugin" \in holders THEN "plugin" ELSE "theme"
    IN IF holders # {} THEN package[<<s, id>>].version
       ELSE IF id = Manager THEN manager ELSE 0

\* The version Updates sends for an id, 0 for none: local uploads stay at home.
MarketVersion(id) ==
    LET holders == {s \in Stores : Shown(s, id)}
        s == IF "plugin" \in holders THEN "plugin" ELSE "theme"
    IN IF holders # {} THEN origin[<<s, id>>]
       ELSE IF id = Manager THEN manager ELSE 0

BeginUpdates(c) ==
    /\ job[c] = Resting /\ \A s \in Stores : lock[s] = None
    /\ job' = [job EXCEPT ![c] = [at |-> "asking",
                 sent |-> [id \in Ids |-> MarketVersion(id)]]]
    /\ UNCHANGED <<storeVars, completed, lock, used, rest>>

\* Of CC's answer only what was asked about and is newer is shown.
EndUpdates(c, latest) ==
    /\ In(c, "asking") /\ job' = [job EXCEPT ![c] = Resting]
    /\ offers' = {o \in {[id |-> id, version |-> job[c].sent[id], latest |-> latest[id]] :
                           id \in Ids} : o.version # 0 /\ o.latest > o.version}
    /\ UNCHANGED <<storeVars, manager, channel, lock, confirmed, completed, used, elsewhere>>

-----------------------------------------------------------------------------

\* A kill leaves a package without its record, or the one moved aside.
Cut(c) == In(c, "record") \/ (In(c, "place") /\ job[c].old # None)

\* The server is killed: the files stay as they are, and what was moved aside
\* stays there.
Crash ==
    /\ \E c \in Callers : job[c] # Resting
    /\ Spend("faults", MaxFaults)
    /\ job' = [c \in Callers |-> Resting] /\ lock' = [s \in Stores |-> None]
    /\ offers' = {} /\ torn' = torn \cup {Slot(c) : c \in {d \in Callers : Cut(d)}}
    /\ UNCHANGED <<package, origin, removed, lost, manager, channel, confirmed, completed, elsewhere>>

PackagesInit ==
    /\ package = [s \in Slots |-> None] /\ origin = [s \in Slots |-> 0]
    /\ manager = 0 /\ channel = None /\ job = [c \in Callers |-> Resting]
    /\ lock = [s \in Stores |-> None] /\ offers = {} /\ confirmed = {} /\ completed = {}
    /\ torn = {} /\ removed = Slots /\ lost = {} /\ used = [installs |-> 0, faults |-> 0]

PackagesTypeOK ==
    /\ package \in [Slots -> {None} \cup [version : Nat \ {0}, market : BOOLEAN]]
    /\ origin \in [Slots -> Nat] /\ manager \in Nat /\ channel \in Ids \cup {None}
    /\ lock \in [Stores -> Callers \cup {None}] /\ DOMAIN job = Callers
    /\ torn \subseteq Slots /\ removed \subseteq Slots /\ lost \subseteq Slots

\* The releases the market's key signed for this server.
Released(slot, version) ==
    \E g \in Grants : /\ g.key \in TrustedKeys /\ g.signed = g.archive
                      /\ g.archive = [type |-> slot[1], id |-> slot[2], version |-> version]

Steady(slot) == lock[slot[1]] = None /\ slot \notin torn

\* What is installed as a market release is one, and is recorded as the release
\* it is; a local upload is recorded as none.  Only a replacement cut off in the
\* middle leaves the record of another content.
RecordsTrue ==
    \A slot \in Slots : Steady(slot) /\ package[slot] # None =>
        /\ package[slot].market => Released(slot, package[slot].version)
        /\ origin[slot] = IF package[slot].market THEN package[slot].version ELSE 0

\* A package is there until it is removed: a replacement that fails brings the
\* one it replaces back, unless the disk fails that as well (plugin.go and
\* theme.go ignore the error).
PackagesKept ==
    \A slot \in Slots : Steady(slot) => package[slot] # None \/ slot \in removed \cup lost

\* CC hears of an installation once it is complete.
ReceiptsTrue == confirmed \subseteq completed

\* An update is offered for a market release that is, or was, installed, and is
\* newer than it.
OffersTrue == \A o \in offers : \E g \in Grants :
    o.latest > o.version /\ g.archive.id = o.id /\ g.archive.version = o.version

PackagesTrue == RecordsTrue /\ PackagesKept /\ ReceiptsTrue /\ OffersTrue

=============================================================================

------------------------------ MODULE Listings ------------------------------
(***************************************************************************)
(* The hotels of the system and their listing on the channel: made by a    *)
(* page of an area's list (marketscan/upsert.py) or by a user who adds a   *)
(* URL to the watchlist (api/routers/watchlist.py), verified by a job      *)
(* (worker/listing_jobs.py), written by the scan jobs of its runs          *)
(* (repo/snapshots.py) and changed by users.  A page and a call are one    *)
(* transaction each: a row is seen by the others when it commits, and a    *)
(* second insert of its key waits until then.  What is read and later      *)
(* written back is written only where it differs from what was read.       *)
(***************************************************************************)
EXTENDS Integers, Sequences, FiniteSets

CONSTANTS
    Keys,       \* URLs (listing keys)
    IdentityOf, \* the hotel a URL leads to (external_id); two may lead to one
    Pages,      \* pages of cards, each a sequence of keys
    Badged,     \* keys whose cards carry a badge: their identity is lost (parser.py)
    Makers,     \* concurrent transactions of pages and "add" calls
    Verifiers,  \* worker processes that verify
    Scanners,   \* worker processes that scan
    Tenants,    \* each has one change of a URL under way at a time
    MaxHotels,  \* bound: hotels made
    MaxQueued,  \* bound: verification jobs of one listing in the queue
    ListingEdits,  \* bound: what users do to a listing
    ListingFaults  \* bound: crashes, failed fetches and pushes

ASSUME ListingBounds ==
    /\ {MaxHotels, MaxQueued} \subseteq Nat \ {0} /\ {ListingFaults, ListingEdits} \subseteq Nat
    /\ \A p \in Pages : p \in Seq(Keys)
    /\ "none" \notin Keys \cup Makers \cup Tenants /\ "saved" \notin Makers
    /\ \A k \in Keys : IdentityOf[k] # "none"
    /\ IsFiniteSet(Verifiers)

VARIABLES
    hotelRow,  \* for an id: "none", or the maker whose transaction holds it, or "saved"
    listing,   \* for an id: its listing [key, ext, status, by], by as above
    maker,     \* for a maker: the cards left and what it read of them
    watch,     \* <<tenant, id>>: active rows of tenant_hotels
    queued,    \* for an id: verification jobs in the queue
    verifier,  \* for a process: the job, what it read and how far it is
    scanner,   \* for a process: the listing its scan job loaded
    change,    \* for a tenant: the change of a URL under way and what it read
    moved,     \* ids whose URL changed while a job that had the old one was under way (history)
    bare,      \* ids whose page showed no identity when it was verified (history)
    efaults, edits

listingVars == <<hotelRow, listing, maker, watch, queued, verifier, scanner, change, moved, bare, efaults, edits>>
jobVars == <<queued, verifier, scanner, change, moved, bare>> \* what pages and calls leave alone

Ids == 1..MaxHotels
NoListing == [key |-> "none", ext |-> "none", status |-> "none", by |-> "none"]
AtRest == [pc |-> "rest", todo |-> << >>, known |-> << >>, id |-> 0, tenant |-> "none"]
Unoccupied == [pc |-> "idle", id |-> 0, key |-> "none", page |-> "none", ext |-> "none", status |-> "none"]
NoScan == [id |-> 0, key |-> "none"]
NoChange == [id |-> 0, key |-> "none", was |-> NoListing, over |-> FALSE]
ListingFault == efaults < ListingFaults /\ efaults' = efaults + 1
Edit == edits < ListingEdits /\ edits' = edits + 1

(* No hotel yet; or a first one, just added by some of the tenants.        *)
Added(i, key) == [j \in Ids |-> IF i # j THEN NoListing
                               ELSE [key |-> key, ext |-> "none", status |-> "unverified", by |-> "saved"]]
ListingsInit ==
    /\ \/ /\ hotelRow = [i \in Ids |-> "none"] /\ listing = [i \in Ids |-> NoListing]
          /\ watch = {} /\ queued = [i \in Ids |-> 0]
       \/ /\ hotelRow = [i \in Ids |-> IF i = 1 THEN "saved" ELSE "none"]
          /\ queued = [i \in Ids |-> IF i = 1 THEN 1 ELSE 0]
          /\ watch \in {T \X {1} : T \in SUBSET Tenants \ {{}}} /\ \E k \in Keys : listing = Added(1, k)
    /\ maker = [m \in Makers |-> AtRest]
    /\ verifier = [v \in Verifiers |-> Unoccupied]
    /\ scanner = [x \in Scanners |-> NoScan] /\ change = [t \in Tenants |-> NoChange]
    /\ moved = {} /\ bare = {} /\ efaults = 0 /\ edits = 0

Saved(i) == listing[i].by = "saved"
Visible(m) == {i \in Ids : listing[i].by \in {"saved", m}}
Of(m, key) == {i \in Visible(m) : listing[i].key = key}
OneOf(S) == IF S = {} THEN 0 ELSE CHOOSE i \in S : \A j \in S : i <= j

----------------------------------------------------------------------------
(* _existing: by key, else by external id; a URL a user pastes has none.   *)
CardId(key) == IF key \in Badged THEN "none" ELSE IdentityOf[key]
Lookup(m, key, page) ==
    LET same == {i \in Visible(m) : page /\ CardId(key) # "none" /\ listing[i].ext = CardId(key)} IN
    OneOf(IF Of(m, key) # {} THEN Of(m, key) ELSE same)

(* resolve_hotels, add_hotel: which of the cards are known is read first,  *)
(* for all of them.  (A page of known hotels makes none: it is left out.)  *)
StartPage(m, cards) ==
    /\ maker[m].pc = "rest" /\ \E n \in DOMAIN cards : Lookup(m, cards[n], TRUE) = 0
    /\ maker' = [maker EXCEPT ![m] = [AtRest EXCEPT !.pc = "make", !.todo = cards,
                   !.known = [k \in {cards[n] : n \in DOMAIN cards} |-> Lookup(m, k, TRUE)]]]
    /\ UNCHANGED <<hotelRow, listing, watch, jobVars, efaults, edits>>

StartAdd(m, t, key) ==
    /\ maker[m].pc = "rest" /\ Edit
    /\ maker' = [maker EXCEPT ![m] = [AtRest EXCEPT !.pc = "make", !.todo = <<key>>, !.tenant = t,
                   !.known = [k \in {key} |-> Lookup(m, k, FALSE)]]]
    /\ UNCHANGED <<hotelRow, listing, watch, jobVars, efaults>>

KnownHotel(m) == maker[m].known[Head(maker[m].todo)]
Pop(m, i) == [maker EXCEPT ![m].todo = Tail(@), ![m].pc = "make", ![m].id = i]

UseKnown(m) ==
    /\ maker[m].pc = "make" /\ maker[m].todo # << >> /\ KnownHotel(m) # 0
    /\ maker' = Pop(m, KnownHotel(m))
    /\ UNCHANGED <<hotelRow, listing, watch, jobVars, efaults, edits>>

(* _create: in a savepoint the hotel ...                                   *)
FreeIds == {i \in Ids : hotelRow[i] = "none"}
InsertHotel(m) ==
    /\ maker[m].pc = "make" /\ maker[m].todo # << >> /\ KnownHotel(m) = 0 /\ FreeIds # {}
    /\ hotelRow' = [hotelRow EXCEPT ![OneOf(FreeIds)] = m]
    /\ maker' = [maker EXCEPT ![m].pc = "insert", ![m].id = OneOf(FreeIds)]
    /\ UNCHANGED <<listing, watch, jobVars, efaults, edits>>

(* ... and its listing; it waits for a transaction that holds the key.     *)
Holders(m) == {i \in Ids \ Visible(m) : listing[i] # NoListing /\ listing[i].key = Head(maker[m].todo)}

InsertListing(m) ==
    LET key == Head(maker[m].todo)  page == maker[m].tenant = "none" IN
    /\ maker[m].pc = "insert" /\ Holders(m) = {} /\ Of(m, key) = {}
    /\ listing' = [listing EXCEPT ![maker[m].id] =
         [key |-> key, ext |-> IF page THEN CardId(key) ELSE "none",
          status |-> IF page THEN "active" ELSE "unverified", by |-> m]]
    /\ maker' = [Pop(m, maker[m].id) EXCEPT ![m].pc = IF page THEN "make" ELSE "new"]
    /\ UNCHANGED <<hotelRow, watch, jobVars, efaults, edits>>

(* The key was taken meanwhile: the savepoint is rolled back and the row   *)
(* the other has made is used.                                             *)
HotelKept(i) == hotelRow \* Mutant: no savepoint around the hotel's row
HotelUndone(i) == [hotelRow EXCEPT ![i] = "none"]

KeyTaken(m) ==
    LET key == Head(maker[m].todo) IN
    /\ maker[m].pc = "insert" /\ Holders(m) = {} /\ Of(m, key) # {}
    /\ hotelRow' = HotelUndone(maker[m].id)
    /\ maker' = Pop(m, OneOf(Of(m, key)))
    /\ UNCHANGED <<listing, watch, jobVars, efaults, edits>>

(* Commit; a call's tenant gets its link, and a new listing its job.       *)
PushVerify(i) == queued[i] < MaxQueued /\ queued' = [queued EXCEPT ![i] = @ + 1]
PushVerifyOrLose(i) ==
    \/ PushVerify(i) /\ UNCHANGED efaults
    \/ ListingFault /\ UNCHANGED queued

CommitMaker(m) ==
    LET i == maker[m].id  saved(by) == IF by = m THEN "saved" ELSE by IN
    /\ maker[m].pc \in {"make", "new"} /\ maker[m].todo = << >>
    /\ hotelRow' = [j \in Ids |-> saved(hotelRow[j])]
    /\ listing' = [j \in Ids |-> [listing[j] EXCEPT !.by = saved(@)]]
    /\ watch' = IF maker[m].tenant = "none" THEN watch ELSE watch \cup {<<maker[m].tenant, i>>}
    /\ IF maker[m].pc = "new" THEN PushVerifyOrLose(i) ELSE UNCHANGED <<queued, efaults>>
    /\ maker' = [maker EXCEPT ![m] = AtRest]
    /\ UNCHANGED <<verifier, scanner, change, moved, bare, edits>>

(* The process dies, or two pages wait for each other and the database     *)
(* ends one of them: nothing of the transaction stays.                     *)
MakerWaits(m) == maker[m].pc = "insert" /\ Holders(m) # {}
Deadlocked(m) == \E n \in Makers : /\ MakerWaits(m) /\ MakerWaits(n)
                                   /\ \E i \in Holders(m) : listing[i].by = n
                                   /\ \E i \in Holders(n) : listing[i].by = m
MakerAborts(m) ==
    /\ maker[m].pc # "rest"
    /\ IF Deadlocked(m) THEN UNCHANGED efaults ELSE ListingFault
    /\ hotelRow' = [j \in Ids |-> IF hotelRow[j] = m THEN "none" ELSE hotelRow[j]]
    /\ listing' = [j \in Ids |-> IF listing[j].by = m THEN NoListing ELSE listing[j]]
    /\ maker' = [maker EXCEPT ![m] = AtRest]
    /\ UNCHANGED <<watch, jobVars, edits>>

----------------------------------------------------------------------------
(* A job begins: changes of the URL under way overlap with it.             *)
Overlapped(i) == [t \in Tenants |-> [change[t] EXCEPT !.over = @ \/ change[t].id = i]]

(* run_verify_listing: the URL is read, the page fetched without a lock.   *)
TakeVerify(v, i) ==
    /\ verifier[v].pc = "idle" /\ queued[i] > 0
    /\ queued' = [queued EXCEPT ![i] = @ - 1]
    /\ verifier' = [verifier EXCEPT ![v] = [Unoccupied EXCEPT !.pc = "fetch", !.id = i, !.key = listing[i].key]]
    /\ change' = Overlapped(i)
    /\ UNCHANGED <<hotelRow, listing, maker, watch, scanner, moved, bare, efaults, edits>>

(* Not found; a paused listing keeps its status.  (_set_status)            *)
Broken(i) == [listing EXCEPT ![i].status = IF @ = "paused" THEN @ ELSE "broken"]
VerifyEnds(v) == verifier' = [verifier EXCEPT ![v] = Unoccupied]

NotFound(v) ==
    /\ verifier[v].pc = "fetch" /\ ListingFault
    /\ listing' = Broken(verifier[v].id) /\ VerifyEnds(v)
    /\ UNCHANGED <<hotelRow, maker, watch, queued, scanner, change, moved, bare, edits>>

(* Blocked, an error of the fetch, or the process dies: tried again; on    *)
(* the last try, or after an error of the database, the job is over.       *)
VerifyFails(v) ==
    /\ verifier[v].pc # "idle" /\ ListingFault
    /\ queued' = [queued EXCEPT ![verifier[v].id] = @ + 1] \/ UNCHANGED queued
    /\ VerifyEnds(v)
    /\ UNCHANGED <<hotelRow, listing, maker, watch, scanner, change, moved, bare, edits>>

(* A page tells whose it is, or only a name (collector.py).  An identity   *)
(* another hotel has already: _hotel_with_external_id.                     *)
ToldBy(key) == {IdentityOf[key], "none"}
OthersWith(i, ext) == {j \in Ids \ {i} : ext # "none" /\ Saved(j) /\ listing[j].ext = ext}

Fetched(v) ==
    LET i == verifier[v].id IN
    /\ verifier[v].pc = "fetch"
    /\ \E ext \in ToldBy(verifier[v].key) :
         IF OthersWith(i, ext) # {} THEN listing' = Broken(i) /\ VerifyEnds(v)
         ELSE verifier' = [verifier EXCEPT ![v].pc = "read", ![v].page = ext] /\ UNCHANGED listing
    /\ UNCHANGED <<hotelRow, maker, watch, queued, scanner, change, moved, bare, efaults, edits>>

(* The row is read again in another transaction ...                        *)
ReadListing(v) ==
    LET l == listing[verifier[v].id] IN
    /\ verifier[v].pc = "read"
    /\ verifier' = [verifier EXCEPT ![v].pc = "write", ![v].ext = l.ext, ![v].status = l.status]
    /\ UNCHANGED <<hotelRow, listing, maker, watch, queued, scanner, change, moved, bare, efaults, edits>>

(* ... and written: a field only when it is another than was read.         *)
Stored(now, was, new) == IF new = was THEN now ELSE new
ActiveAfterBroken(status) == IF status = "broken" THEN "active" ELSE status \* Mutant: a new one is forgotten
ActiveAfter(status) == IF status \in {"unverified", "broken"} THEN "active" ELSE status
WriteListing(v) ==
    LET i == verifier[v].id  read == verifier[v] IN
    /\ read.pc = "write"
    /\ listing' = [listing EXCEPT ![i].ext = Stored(@, read.ext, IF read.page = "none" THEN read.ext ELSE read.page),
                                  ![i].status = Stored(@, read.status, ActiveAfter(read.status))]
    /\ bare' = IF read.page = "none" THEN bare \cup {i} ELSE bare
    /\ VerifyEnds(v)
    /\ UNCHANGED <<hotelRow, maker, watch, queued, scanner, change, moved, efaults, edits>>

----------------------------------------------------------------------------
(* A scan job loads an active listing (load_listing) ...                   *)
LoadForScan(x, i) ==
    /\ scanner[x].id = 0 /\ Saved(i) /\ listing[i].status = "active"
    /\ scanner' = [scanner EXCEPT ![x] = [id |-> i, key |-> listing[i].key]]
    /\ change' = Overlapped(i)
    /\ UNCHANGED <<hotelRow, listing, maker, watch, queued, verifier, moved, bare, efaults, edits>>

(* ... and each of its probes writes the identity its page shows, if any,  *)
(* whatever became of the listing meanwhile (update_listing_identity).     *)
ScanWrites(x) ==
    /\ scanner[x].id # 0
    /\ listing' = [listing EXCEPT ![scanner[x].id].ext = IdentityOf[scanner[x].key]]
    /\ UNCHANGED <<hotelRow, maker, watch, jobVars, efaults, edits>>

ScanEnds(x) ==
    /\ scanner[x].id # 0 /\ scanner' = [scanner EXCEPT ![x] = NoScan]
    /\ UNCHANGED <<hotelRow, listing, maker, watch, queued, verifier, change, moved, bare, efaults, edits>>

(* The page is gone: the listing is broken, a paused one too               *)
(* (mark_listing_broken), and the job ends.                                *)
ScanFindsNothing(x) ==
    /\ scanner[x].id # 0 /\ ListingFault
    /\ listing' = [listing EXCEPT ![scanner[x].id].status = "broken"]
    /\ scanner' = [scanner EXCEPT ![x] = NoScan]
    /\ UNCHANGED <<hotelRow, maker, watch, queued, verifier, change, moved, bare, edits>>

----------------------------------------------------------------------------
(* Users.  A listing others track, too, is not theirs to change.           *)
SoleTracker(t, i) == <<t, i>> \in watch /\ \A u \in Tenants : <<u, i>> \in watch => u = t

(* add_listing: another URL for a hotel, unless it is another hotel's.     *)
(* What it reads first ...                                                 *)
UnderWay(i) == (\E v \in Verifiers : verifier[v].id = i) \/ (\E x \in Scanners : scanner[x].id = i)

StartChange(t, i, key) ==
    /\ Edit /\ change[t].id = 0 /\ <<t, i>> \in watch /\ Saved(i)
    /\ \A j \in Ids \ {i} : Saved(j) => listing[j].key # key
    /\ key # listing[i].key \/ listing[i].status \notin {"active", "unverified"}
    /\ listing[i].status = "broken" \/ SoleTracker(t, i)
    /\ change' = [change EXCEPT ![t] = [id |-> i, key |-> key, was |-> listing[i], over |-> UnderWay(i)]]
    /\ UNCHANGED <<hotelRow, listing, maker, watch, queued, verifier, scanner, moved, bare, efaults>>

(* ... may be old when it commits.  A new key waits for a transaction that *)
(* holds it; when that one took it the call fails.                         *)
StatusKept(i) == listing[i].status \* Mutant: the status stays
UrlChanged(i) == "unverified"

SameUrl(t, i) == {j \in Ids \ {i} : change[t].key # change[t].was.key /\ listing[j].key = change[t].key}

CommitChange(t, i) ==
    LET key == change[t].key  was == change[t].was IN
    /\ i = change[t].id /\ SameUrl(t, i) = {}
    /\ listing' = [listing EXCEPT ![i].key = Stored(@, was.key, key), ![i].ext = Stored(@, was.ext, "none"),
                                  ![i].status = Stored(@, was.status, UrlChanged(i))]
    /\ moved' = IF change[t].over THEN moved \cup {i} ELSE moved
    /\ bare' = bare \ {i} /\ change' = [change EXCEPT ![t] = NoChange]
    /\ PushVerifyOrLose(i)
    /\ UNCHANGED <<hotelRow, maker, watch, verifier, scanner, edits>>

ChangeRefused(t) ==
    /\ change[t].id # 0 /\ \E j \in SameUrl(t, change[t].id) : Saved(j)
    /\ change' = [change EXCEPT ![t] = NoChange]
    /\ UNCHANGED <<hotelRow, listing, maker, watch, queued, verifier, scanner, moved, bare, efaults, edits>>

(* act_on_listing: pause, resume, retry.                                   *)
PauseListing(t, i) ==
    /\ Edit /\ SoleTracker(t, i) /\ Saved(i)
    /\ listing' = [listing EXCEPT ![i].status = "paused"]
    /\ UNCHANGED <<hotelRow, maker, watch, jobVars, efaults>>

VerifyAgain(t, i) ==
    /\ Edit /\ <<t, i>> \in watch /\ Saved(i)
    /\ SoleTracker(t, i) \/ listing[i].status \in {"broken", "unverified"}
    /\ listing' = [listing EXCEPT ![i].status = "unverified"]
    /\ PushVerifyOrLose(i)
    /\ UNCHANGED <<hotelRow, maker, watch, verifier, scanner, change, moved, bare>>

Unwatch(t, i) ==
    /\ Edit /\ <<t, i>> \in watch
    /\ watch' = watch \ {<<t, i>>}
    /\ UNCHANGED <<hotelRow, listing, maker, jobVars, efaults>>

MakerStep(m) ==
    UseKnown(m) \/ InsertHotel(m) \/ InsertListing(m) \/ KeyTaken(m) \/ CommitMaker(m)
VerifierStep(v) ==
    (\E i \in Ids : TakeVerify(v, i)) \/ Fetched(v) \/ ReadListing(v) \/ WriteListing(v)

ScannerStep(x) ==
    (\E i \in Ids : LoadForScan(x, i)) \/ ScanWrites(x) \/ ScanEnds(x) \/ ScanFindsNothing(x)
UserStep(t, i) ==
    \/ PauseListing(t, i) \/ VerifyAgain(t, i) \/ Unwatch(t, i)
    \/ CommitChange(t, i) \/ \E k \in Keys : StartChange(t, i, k)

ListingsNext ==
    \/ \E m \in Makers : \/ MakerStep(m) \/ MakerAborts(m)
                         \/ \E p \in Pages : StartPage(m, p)
                         \/ \E t \in Tenants, k \in Keys : StartAdd(m, t, k)
    \/ \E v \in Verifiers : VerifierStep(v) \/ NotFound(v) \/ VerifyFails(v)
    \/ \E x \in Scanners : ScannerStep(x)
    \/ \E t \in Tenants : ChangeRefused(t) \/ \E i \in Ids : UserStep(t, i)

(* Transactions go on and workers take jobs; nobody has to ask.            *)
ListingsFairness ==
    /\ WF_listingVars(\E m \in Makers : MakerStep(m)) /\ WF_listingVars(\E v \in Verifiers : VerifierStep(v))

ListingsSpec == ListingsInit /\ [][ListingsNext]_listingVars /\ ListingsFairness

----------------------------------------------------------------------------
ListingsTypeOK ==
    /\ hotelRow \in [Ids -> Makers \cup {"none", "saved"}]
    /\ \A i \in Ids : /\ listing[i].key \in Keys \cup {"none"} /\ listing[i].by \in Makers \cup {"none", "saved"}
                      /\ listing[i].status \in {"none", "unverified", "active", "broken", "paused"}
                      /\ queued[i] \in 0..(MaxQueued + Cardinality(Verifiers))
    /\ watch \subseteq Tenants \X Ids /\ moved \subseteq Ids /\ bare \subseteq Ids
    /\ \A x \in Scanners : scanner[x].id \in Ids \cup {0} /\ scanner[x].key \in Keys \cup {"none"}
    /\ \A t \in Tenants : change[t].id \in Ids \cup {0} /\ change[t].key \in Keys \cup {"none"}

(* However pages and calls that make the same hotel race, and whichever of *)
(* them ends early, no hotel is left without a listing, none has its key   *)
(* twice, and a tenant watches hotels that are there.                      *)
EveryHotelListed ==
    /\ \A i \in Ids : hotelRow[i] = "saved" => Saved(i)
    /\ \A i, j \in Ids : listing[i].key = listing[j].key => i = j \/ listing[i] = NoListing
    /\ \A x \in watch : hotelRow[x[2]] = "saved"

(* An active listing never carries the identity of another URL's hotel:    *)
(* it has its own URL's, or none if its card had a badge or its page told  *)
(* no identity when it was verified - though a scan writes identities      *)
(* without a look at the listing, and a changed URL is written upon what   *)
(* was read before - unless the URL changed while a verification or a scan *)
(* that had the old one was under way.                                     *)
ActiveIsVerified ==
    \A i \in Ids \ moved : listing[i].status = "active" =>
        LET l == listing[i] IN l.ext = IdentityOf[l.key] \/ (l.ext = "none" /\ (l.key \in Badged \/ i \in bare))

(* A listing that was made and waits for its verification.                 *)
Waiting(i) == Saved(i) /\ listing[i].status = "unverified"

(* A hotel of a tenant is listed once verified, and a listing that is      *)
(* active was verified with the URL it has (worker/listing_jobs.py).       *)
ListingsAreSound == ListingsTypeOK /\ EveryHotelListed /\ ActiveIsVerified

=============================================================================

--------------------------- MODULE ListingsProofs ---------------------------
(***************************************************************************)
(* Theorems about the hotels and their listings (Listings.tla), for any    *)
(* URLs, pages, tenants and numbers of transactions, verifiers and scans.  *)
(***************************************************************************)
EXTENDS Listings, FiniteSetTheorems, WellFoundedInduction, TLAPS

Places == Makers \cup {"none", "saved"}
Statuses == {"none", "unverified", "active", "broken", "paused"}
Exts == {IdentityOf[k] : k \in Keys} \cup {"none"}
Entries == [key : Keys \cup {"none"}, ext : Exts, status : Statuses, by : Places]
Readings == UNION {[K -> 0..MaxHotels] : K \in SUBSET Keys}
Work == [pc : {"rest", "make", "insert", "new"}, todo : Seq(Keys), known : Readings,
         id : 0..MaxHotels, tenant : Tenants \cup {"none"}]
Errands == [pc : {"idle", "fetch", "read", "write"}, id : 0..MaxHotels,
           key : Keys \cup {"none"}, page : Exts, ext : Exts, status : Statuses]
Scans == [id : 0..MaxHotels, key : Keys \cup {"none"}]
Changes == [id : 0..MaxHotels, key : Keys \cup {"none"}, was : Entries, over : BOOLEAN]

Types ==
    /\ hotelRow \in [Ids -> Places] /\ listing \in [Ids -> Entries]
    /\ maker \in [Makers -> Work] /\ verifier \in [Verifiers -> Errands]
    /\ scanner \in [Scanners -> Scans] /\ change \in [Tenants -> Changes]
    /\ queued \in [Ids -> Nat] /\ watch \subseteq Tenants \X Ids /\ moved \subseteq Ids /\ bare \subseteq Ids

-----------------------------------------------------------------------------
(* The rows of open transactions.                                            *)

\* A row is its maker's until it commits; between the hotel and its listing
\* the maker is at that very place.
OwnRows ==
    \A i \in Ids : \/ listing[i].by = hotelRow[i]
                   \/ /\ listing[i].by = "none" /\ hotelRow[i] \in Makers
                      /\ maker[hotelRow[i]].pc = "insert" /\ maker[hotelRow[i]].id = i
BlankOrWhole ==
    \A i \in Ids : IF listing[i].by = "none" THEN listing[i] = NoListing ELSE listing[i].key \in Keys
OneKeyEach ==
    \A i, j \in Ids : listing[i].key = listing[j].key => i = j \/ listing[i].by = "none"
AtWork == \A i \in Ids : \A m \in Makers : hotelRow[i] = m => maker[m].pc # "rest"

Inserts(m) ==
    maker[m].pc = "insert" =>
        /\ maker[m].todo # << >> /\ maker[m].id \in Ids
        /\ hotelRow[maker[m].id] = m /\ listing[maker[m].id].by = "none"
IsNew(m) ==
    maker[m].pc = "new" =>
        /\ maker[m].id \in Ids /\ hotelRow[maker[m].id] = m /\ listing[maker[m].id].by = m
MayLink(m) ==
    maker[m].pc \in {"make", "new"} /\ maker[m].tenant # "none" /\ maker[m].todo = << >> =>
        maker[m].id \in Ids /\ hotelRow[maker[m].id] \in {"saved", m}
\* What a transaction read of its cards when it began is still there.
ReadsHold(m) ==
    /\ \A n \in DOMAIN maker[m].todo : maker[m].todo[n] \in DOMAIN maker[m].known
    /\ \A k \in DOMAIN maker[m].known :
          maker[m].known[k] = 0 \/ (maker[m].known[k] \in Ids /\ Saved(maker[m].known[k]))
Watched == \A x \in watch : hotelRow[x[2]] = "saved"

RowsInv ==
    /\ OwnRows /\ BlankOrWhole /\ OneKeyEach /\ AtWork /\ Watched
    /\ \A m \in Makers : Inserts(m) /\ IsNew(m) /\ MayLink(m) /\ ReadsHold(m)

-----------------------------------------------------------------------------
(* The verification of what has been saved.                                  *)

QueuedIsSaved == \A i \in Ids : queued[i] > 0 => Saved(i)
\* A verifier has the URL the listing still has, or the listing is in "moved";
\* and an identity it read there is there still.
ChecksUrl(v) ==
    IF verifier[v].pc = "idle" THEN verifier[v].id = 0
    ELSE LET i == verifier[v].id  k == verifier[v].key IN
         /\ i \in Ids /\ Saved(i) /\ k \in Keys /\ verifier[v].page \in ToldBy(k)
         /\ i \notin moved => /\ listing[i].key = k
                              /\ verifier[v].ext = "none" \/ listing[i].ext = verifier[v].ext
\* So has a scan job.
ScanUrl(x) ==
    scanner[x].id # 0 =>
        LET i == scanner[x].id  k == scanner[x].key IN
        /\ i \in Ids /\ Saved(i) /\ k \in Keys
        /\ i \notin moved => listing[i].key = k
\* A change of a URL that no job overlaps with: what it read still holds.
ChangeRead(t) ==
    change[t].id # 0 =>
        LET i == change[t].id  was == change[t].was IN
        /\ i \in Ids /\ Saved(i) /\ change[t].key \in Keys
        /\ ~ change[t].over => /\ ~ UnderWay(i)
                               /\ was.ext = "none" => listing[i].ext = "none"
                               /\ was.status = "unverified" => listing[i].status # "active"
\* Whatever its status, a listing has the identity of its URL or none.
OwnIdentity ==
    \A i \in Ids \ moved : listing[i].ext = "none" \/ listing[i].ext = IdentityOf[listing[i].key]
Busy(i) == {v \in Verifiers : verifier[v].id = i}
\* A job that is given back finds its place in the queue again.
Load == \A i \in Ids : queued[i] + Cardinality(Busy(i)) <= MaxQueued + Cardinality(Verifiers)

ChecksInv ==
    /\ QueuedIsSaved /\ Load /\ ActiveIsVerified /\ OwnIdentity
    /\ \A v \in Verifiers : ChecksUrl(v)
    /\ \A x \in Scanners : ScanUrl(x)
    /\ \A t \in Tenants : ChangeRead(t)

ListingsInv == Types /\ RowsInv /\ ChecksInv

-----------------------------------------------------------------------------
(* The operators.                                                            *)

LEMMA Bounds ==
    /\ MaxHotels \in Nat /\ MaxHotels > 0 /\ MaxQueued \in Nat /\ MaxQueued > 0
    /\ "none" \notin Keys /\ "none" \notin Makers /\ "none" \notin Tenants /\ "saved" \notin Makers
    /\ IsFiniteSet(Verifiers) /\ Cardinality(Verifiers) \in Nat
<1>1. IsFiniteSet(Verifiers)
  BY ListingBounds
<1>2. Cardinality(Verifiers) \in Nat
  BY <1>1, FS_CardinalityType
<1> QED
  BY <1>1, <1>2, ListingBounds

\* A set of numbers that is not empty has a least one.
LEMMA LeastElement ==
    ASSUME NEW S \in SUBSET Nat, S # {}
    PROVE  \E x \in S : \A y \in S : x <= y
<1> DEFINE R == OpToRel(<, Nat)
<1>1. R = {ss \in Nat \X Nat : ss[1] < ss[2]}
  BY DEF OpToRel
<1>2. IsWellFoundedOn(R, Nat)
  BY NatLessThanWellFounded, Zenon
<1> HIDE DEF R
<1>3. PICK x \in S : \A y \in S : <<y, x>> \notin R
  BY <1>2, WFMin, Zenon
<1>4. \A y \in S : <<y, x>> \in Nat \X Nat /\ <<y, x>>[1] = y /\ <<y, x>>[2] = x
  OBVIOUS
<1>5. \A y \in S : ~ (y < x)
  BY <1>1, <1>3, <1>4
<1> QED
  BY <1>5

LEMMA OneOfIn ==
    ASSUME NEW S \in SUBSET Ids
    PROVE  /\ S = {} => OneOf(S) = 0
           /\ S # {} => OneOf(S) \in S
<1>1. CASE S = {}
  BY <1>1 DEF OneOf
<1>2. CASE S # {}
  <2>1. S \in SUBSET Nat
    BY Bounds DEF Ids
  <2>2. \E x \in S : \A y \in S : x <= y
    BY <1>2, <2>1, LeastElement
  <2> QED
    BY <1>2, <2>2 DEF OneOf
<1> QED
  BY <1>1, <1>2

LEMMA TailIs ==
    ASSUME NEW s \in Seq(Keys), s # << >>
    PROVE  /\ Head(s) \in Keys /\ Tail(s) \in Seq(Keys)
           /\ \E n \in DOMAIN s : Head(s) = s[n]
           /\ \A n \in DOMAIN Tail(s) : \E k \in DOMAIN s : Tail(s)[n] = s[k]
<1>1. Head(s) = s[1] /\ 1 \in DOMAIN s
  OBVIOUS
<1>2. Tail(s) \in Seq(Keys) /\ Head(s) \in Keys
  OBVIOUS
<1>3. ASSUME NEW n \in DOMAIN Tail(s) PROVE n + 1 \in DOMAIN s /\ Tail(s)[n] = s[n + 1]
  <2>1. Len(s) \in Nat /\ Len(s) > 0 /\ Len(Tail(s)) = Len(s) - 1
    OBVIOUS
  <2>2. n \in 1..(Len(s) - 1)
    BY <1>2, <2>1
  <2> QED
    BY <2>1, <2>2
<1> QED
  BY <1>1, <1>2, <1>3

LEMMA BlankIs ==
    /\ NoListing \in Entries /\ NoListing.key = "none" /\ NoListing.by = "none"
    /\ NoListing.status = "none" /\ NoListing.ext = "none"
BY DEF NoListing, Entries, Exts, Statuses, Places

LEMMA RestIs ==
    /\ AtRest \in Work /\ AtRest.pc = "rest" /\ AtRest.todo = << >> /\ AtRest.known = << >>
    /\ AtRest.id = 0 /\ AtRest.tenant = "none"
<1>1. << >> \in Readings
  <2>1. << >> \in [{} -> 0..MaxHotels] /\ {} \in SUBSET Keys
    OBVIOUS
  <2> QED
    BY <2>1 DEF Readings
<1>2. << >> \in Seq(Keys) /\ 0 \in 0..MaxHotels
  BY Bounds
<1> QED
  BY <1>1, <1>2 DEF AtRest, Work

LEMMA IdleIs ==
    /\ Unoccupied \in Errands /\ Unoccupied.pc = "idle" /\ Unoccupied.id = 0
    /\ Unoccupied.page = "none" /\ Unoccupied.ext = "none"
BY Bounds DEF Unoccupied, Errands, Statuses, Exts

LEMMA NothingIs ==
    /\ NoScan \in Scans /\ NoScan.id = 0 /\ NoChange \in Changes /\ NoChange.id = 0
<1>1. NoScan \in Scans /\ NoScan.id = 0
  BY Bounds DEF NoScan, Scans
<1>2. NoChange \in Changes /\ NoChange.id = 0
  BY Bounds, BlankIs DEF NoChange, Changes
<1> QED
  BY <1>1, <1>2

LEMMA PopIs ==
    ASSUME maker \in [Makers -> Work], NEW m \in Makers, maker[m].todo # << >>, NEW i \in 0..MaxHotels
    PROVE  /\ Pop(m, i) \in [Makers -> Work]
           /\ Pop(m, i)[m].todo = Tail(maker[m].todo) /\ Pop(m, i)[m].pc = "make" /\ Pop(m, i)[m].id = i
           /\ Pop(m, i)[m].known = maker[m].known /\ Pop(m, i)[m].tenant = maker[m].tenant
           /\ \A n \in Makers : n # m => Pop(m, i)[n] = maker[n]
<1>1. maker[m] \in Work /\ maker[m].todo \in Seq(Keys)
  BY DEF Work
<1>2. Tail(maker[m].todo) \in Seq(Keys)
  BY <1>1, TailIs
<1> DEFINE w == [[[maker[m] EXCEPT !.todo = Tail(@)] EXCEPT !.pc = "make"] EXCEPT !.id = i]
<1>3. w \in Work
  BY <1>1, <1>2 DEF Work
<1>4. /\ w.todo = Tail(maker[m].todo) /\ w.pc = "make" /\ w.id = i
      /\ w.known = maker[m].known /\ w.tenant = maker[m].tenant
  BY <1>1 DEF Work
<1>5. Pop(m, i) = [maker EXCEPT ![m] = w]
  BY DEF Pop
<1> HIDE DEF w
<1> QED
  BY <1>3, <1>4, <1>5

LEMMA LookupIn ==
    ASSUME NEW m, NEW key, NEW page
    PROVE  /\ Lookup(m, key, page) \in 0..MaxHotels
           /\ Lookup(m, key, page) # 0 =>
                Lookup(m, key, page) \in Ids /\ listing[Lookup(m, key, page)].by \in {"saved", m}
<1> DEFINE same == {i \in Visible(m) : page /\ CardId(key) # "none" /\ listing[i].ext = CardId(key)}
           S == IF Of(m, key) # {} THEN Of(m, key) ELSE same
<1>1. S \in SUBSET Visible(m) /\ Visible(m) \in SUBSET Ids
  BY DEF Of, Visible
<1>2. \A i \in Visible(m) : listing[i].by \in {"saved", m}
  BY DEF Visible
<1>3. Lookup(m, key, page) = OneOf(S)
  BY DEF Lookup
<1> HIDE DEF S
<1>4. (S = {} => OneOf(S) = 0) /\ (S # {} => OneOf(S) \in S)
  BY <1>1, OneOfIn
<1>5. 0 \in 0..MaxHotels /\ Ids \subseteq 0..MaxHotels /\ 0 \notin Ids
  BY Bounds DEF Ids
<1>6. CASE S = {}
  BY <1>3, <1>4, <1>5, <1>6
<1>7. CASE S # {}
  BY <1>1, <1>2, <1>3, <1>4, <1>5, <1>7
<1> QED
  BY <1>6, <1>7

LEMMA KnownIn ==
    ASSUME Types, RowsInv, NEW m \in Makers, maker[m].todo # << >>
    PROVE  /\ KnownHotel(m) \in 0..MaxHotels
           /\ KnownHotel(m) # 0 => KnownHotel(m) \in Ids /\ Saved(KnownHotel(m))
<1>1. maker[m] \in Work /\ maker[m].todo \in Seq(Keys) /\ maker[m].known \in Readings
  BY DEF Types, Work
<1>2. Head(maker[m].todo) \in DOMAIN maker[m].known
  <2>1. PICK n \in DOMAIN maker[m].todo : Head(maker[m].todo) = maker[m].todo[n]
    BY <1>1, TailIs
  <2> QED
    BY <2>1 DEF RowsInv, ReadsHold
<1>3. PICK K \in SUBSET Keys : maker[m].known \in [K -> 0..MaxHotels]
  BY <1>1 DEF Readings
<1> QED
  BY <1>2, <1>3 DEF RowsInv, ReadsHold, KnownHotel

LEMMA NewTypes ==
    ASSUME hotelRow' \in [Ids -> Places], listing' \in [Ids -> Entries],
           maker' \in [Makers -> Work], verifier' \in [Verifiers -> Errands],
           scanner' \in [Scanners -> Scans], change' \in [Tenants -> Changes],
           queued' \in [Ids -> Nat], watch' \subseteq Tenants \X Ids, moved' \subseteq Ids, bare' \subseteq Ids
    PROVE  Types'
BY DEF Types, Ids, Places, Entries, Exts, Statuses, Work, Readings, Errands, Scans, Changes

-----------------------------------------------------------------------------
(* Types.                                                                    *)

LEMMA Shapes ==
    ASSUME Types
    PROVE  /\ hotelRow \in [Ids -> Places] /\ listing \in [Ids -> Entries]
           /\ maker \in [Makers -> Work] /\ verifier \in [Verifiers -> Errands]
           /\ scanner \in [Scanners -> Scans] /\ change \in [Tenants -> Changes]
           /\ queued \in [Ids -> Nat] /\ watch \subseteq Tenants \X Ids /\ moved \subseteq Ids /\ bare \subseteq Ids
           /\ \A m \in Makers : maker[m].todo \in Seq(Keys) /\ maker[m].id \in 0..MaxHotels
           /\ \A i \in Ids : listing[i].key \in Keys \cup {"none"} /\ listing[i].by \in Places
           /\ \A v \in Verifiers : verifier[v].id \in 0..MaxHotels /\ verifier[v].key \in Keys \cup {"none"}
BY DEF Types, Work, Entries, Errands

LEMMA MakerTypes ==
    ASSUME Types, RowsInv, NEW m \in Makers,
           \/ MakerStep(m) \/ MakerAborts(m)
           \/ \E p \in Pages : StartPage(m, p)
           \/ \E t \in Tenants, k \in Keys : StartAdd(m, t, k)
    PROVE  Types'
<1> USE Shapes
<1>0. 0 \in 0..MaxHotels /\ Ids \subseteq 0..MaxHotels
  BY Bounds DEF Ids
<1>1. ASSUME NEW p \in Pages, StartPage(m, p) PROVE Types'
  <2>1. p \in Seq(Keys)
    BY ListingBounds
  <2>2. {p[n] : n \in DOMAIN p} \in SUBSET Keys
    BY <2>1
  <2> DEFINE read == [k \in {p[n] : n \in DOMAIN p} |-> Lookup(m, k, TRUE)]
  <2>3. read \in Readings
    <3> DEFINE K == {p[n] : n \in DOMAIN p}
    <3>1. \A k \in K : Lookup(m, k, TRUE) \in 0..MaxHotels
      BY LookupIn, Zenon
    <3> HIDE DEF K
    <3>2. [k \in K |-> Lookup(m, k, TRUE)] \in [K -> 0..MaxHotels]
      BY <3>1
    <3> QED
      BY <2>2, <3>2 DEF Readings, K
  <2>4. maker' = [maker EXCEPT ![m] = [AtRest EXCEPT !.pc = "make", !.todo = p, !.known = read]]
    BY <1>1 DEF StartPage
  <2> HIDE DEF read
  <2>5. [AtRest EXCEPT !.pc = "make", !.todo = p, !.known = read] \in Work
    BY <2>1, <2>3, RestIs DEF Work
  <2>6. maker' \in [Makers -> Work]
    BY <2>4, <2>5
  <2> QED
    BY <1>1, <2>6, NewTypes DEF StartPage, jobVars
<1>2. ASSUME NEW t \in Tenants, NEW k \in Keys, StartAdd(m, t, k) PROVE Types'
  <2>1. <<k>> \in Seq(Keys) /\ {k} \in SUBSET Keys
    OBVIOUS
  <2> DEFINE read == [x \in {k} |-> Lookup(m, x, FALSE)]
  <2>3. read \in Readings
    <3>1. \A x \in {k} : Lookup(m, x, FALSE) \in 0..MaxHotels
      BY LookupIn, Zenon
    <3>2. read \in [{k} -> 0..MaxHotels]
      BY <3>1
    <3> QED
      BY <2>1, <3>2 DEF Readings
  <2>4. maker' = [maker EXCEPT ![m] = [AtRest EXCEPT !.pc = "make", !.todo = <<k>>, !.tenant = t, !.known = read]]
    BY <1>2 DEF StartAdd
  <2> HIDE DEF read
  <2>5. [AtRest EXCEPT !.pc = "make", !.todo = <<k>>, !.tenant = t, !.known = read] \in Work
    BY <2>1, <2>3, RestIs DEF Work
  <2>6. maker' \in [Makers -> Work]
    BY <2>4, <2>5
  <2> QED
    BY <1>2, <2>6, NewTypes DEF StartAdd, jobVars
<1>3. CASE UseKnown(m)
  <2>1. maker' \in [Makers -> Work]
    BY <1>3, KnownIn, PopIs DEF UseKnown
  <2> QED
    BY <1>3, <2>1, NewTypes DEF UseKnown, jobVars
<1>4. CASE InsertHotel(m)
  <2>1. OneOf(FreeIds) \in Ids
    BY <1>4, OneOfIn DEF InsertHotel, FreeIds
  <2>2. hotelRow' \in [Ids -> Places]
    BY <1>4, <2>1 DEF InsertHotel, Places
  <2>3. [[maker[m] EXCEPT !.pc = "insert"] EXCEPT !.id = OneOf(FreeIds)] \in Work
    BY <1>0, <2>1 DEF Work
  <2>4. maker' = [maker EXCEPT ![m] = [[maker[m] EXCEPT !.pc = "insert"] EXCEPT !.id = OneOf(FreeIds)]]
    BY <1>4 DEF InsertHotel
  <2>5. maker' \in [Makers -> Work]
    BY <2>3, <2>4
  <2> QED
    BY <1>4, <2>2, <2>5, NewTypes DEF InsertHotel, jobVars
<1>5. CASE InsertListing(m)
  <2>1. maker[m].todo # << >> /\ maker[m].id \in Ids
    BY <1>5 DEF InsertListing, RowsInv, Inserts
  <2> DEFINE key == Head(maker[m].todo)
             page == maker[m].tenant = "none"
             e == [key |-> key, ext |-> IF page THEN CardId(key) ELSE "none",
                   status |-> IF page THEN "active" ELSE "unverified", by |-> m]
  <2>2. key \in Keys
    BY <2>1, TailIs
  <2>3. CardId(key) \in Exts /\ "none" \in Exts
    BY <2>2 DEF CardId, Exts
  <2>4. e \in Entries
    BY <2>2, <2>3 DEF Entries, Statuses, Places
  <2>5. listing' = [listing EXCEPT ![maker[m].id] = e]
    BY <1>5 DEF InsertListing
  <2>6. listing' \in [Ids -> Entries]
    BY <2>4, <2>5
  <2>7. PICK i \in 0..MaxHotels : i = maker[m].id
    BY <1>0, <2>1
  <2>8. PICK s \in {"make", "new"} : maker' = [Pop(m, i) EXCEPT ![m].pc = s]
    BY <1>5, <2>7 DEF InsertListing
  <2>9. Pop(m, i) \in [Makers -> Work]
    BY <2>1, PopIs
  <2>10. [Pop(m, i)[m] EXCEPT !.pc = s] \in Work
    BY <2>9 DEF Work
  <2>11. maker' \in [Makers -> Work]
    BY <2>8, <2>9, <2>10
  <2> QED
    BY <1>5, <2>6, <2>11, NewTypes DEF InsertListing, jobVars
<1>6. CASE KeyTaken(m)
  <2>1. maker[m].todo # << >> /\ maker[m].id \in Ids
    BY <1>6 DEF KeyTaken, RowsInv, Inserts
  <2>2. Of(m, Head(maker[m].todo)) \in SUBSET Ids /\ Of(m, Head(maker[m].todo)) # {}
    BY <1>6 DEF KeyTaken, Of, Visible
  <2>3. PICK i \in Ids : i = OneOf(Of(m, Head(maker[m].todo)))
    BY <2>2, OneOfIn
  <2>4. maker' = Pop(m, i)
    BY <1>6, <2>3 DEF KeyTaken
  <2>5. maker' \in [Makers -> Work]
    BY <1>0, <2>1, <2>4, PopIs
  <2>6. hotelRow' \in [Ids -> Places]
    BY <1>6 DEF KeyTaken, HotelUndone, Places
  <2> QED
    BY <1>6, <2>5, <2>6, NewTypes DEF KeyTaken, jobVars
<1>7. CASE CommitMaker(m)
  <2>1. hotelRow' \in [Ids -> Places]
    BY <1>7 DEF CommitMaker, Places
  <2>2. \A b \in Places : (IF b = m THEN "saved" ELSE b) \in Places
    BY DEF Places
  <2>3. \A j \in Ids, b \in Places : [listing[j] EXCEPT !.by = b] \in Entries
    BY DEF Entries
  <2>4. listing' = [j \in Ids |-> [listing[j] EXCEPT !.by = IF listing[j].by = m THEN "saved" ELSE listing[j].by]]
    BY <1>7 DEF CommitMaker
  <2>5. listing' \in [Ids -> Entries]
    BY <2>2, <2>3, <2>4
  <2>6. maker' \in [Makers -> Work]
    BY <1>7, RestIs DEF CommitMaker
  <2>7. watch' \subseteq Tenants \X Ids
    <3>1. maker[m].tenant \in Tenants \cup {"none"}
      BY DEF Work
    <3> QED
      BY <1>7, <3>1 DEF CommitMaker, RowsInv, MayLink
  <2>8. queued' \in [Ids -> Nat]
    BY <1>7 DEF CommitMaker, PushVerifyOrLose, PushVerify
  <2> QED
    BY <1>7, <2>1, <2>5, <2>6, <2>7, <2>8, NewTypes DEF CommitMaker
<1>8. CASE MakerAborts(m)
  <2>1. hotelRow' \in [Ids -> Places]
    BY <1>8 DEF MakerAborts, Places
  <2>2. listing' \in [Ids -> Entries]
    BY <1>8, BlankIs DEF MakerAborts
  <2>3. maker' \in [Makers -> Work]
    BY <1>8, RestIs DEF MakerAborts
  <2> QED
    BY <1>8, <2>1, <2>2, <2>3, NewTypes DEF MakerAborts, jobVars
<1> QED
  BY <1>1, <1>2, <1>3, <1>4, <1>5, <1>6, <1>7, <1>8 DEF MakerStep

\* Two fields of a listing are written.
LEMMA TwoFields ==
    ASSUME listing \in [Ids -> Entries], NEW i \in Ids, NEW e \in Exts, NEW s \in Statuses,
           listing' = [listing EXCEPT ![i].ext = e, ![i].status = s]
    PROVE  /\ listing' \in [Ids -> Entries]
           /\ listing'[i].by = listing[i].by /\ listing'[i].key = listing[i].key
           /\ listing'[i].ext = e /\ listing'[i].status = s
           /\ \A j \in Ids : j # i => listing'[j] = listing[j]
<1>1. listing[i] \in Entries
  OBVIOUS
<1> DEFINE l == [[listing[i] EXCEPT !.ext = e] EXCEPT !.status = s]
<1>2. l \in Entries /\ l.by = listing[i].by /\ l.key = listing[i].key /\ l.ext = e /\ l.status = s
  BY <1>1 DEF Entries
<1>3. listing' = [listing EXCEPT ![i] = l]
  OBVIOUS
<1> HIDE DEF l
<1> QED
  BY <1>2, <1>3

LEMMA WrittenIs ==
    ASSUME Types, ChecksInv, NEW v \in Verifiers, WriteListing(v)
    PROVE  \E s \in Statuses, e \in Exts :
              /\ \/ e = verifier[v].page /\ e # "none"
                 \/ e = listing[verifier[v].id].ext /\ (verifier[v].page = "none" \/ verifier[v].page = verifier[v].ext)
              /\ listing' = [listing EXCEPT ![verifier[v].id].ext = e, ![verifier[v].id].status = s]
<1>1. verifier[v].id \in Ids
  BY DEF ChecksInv, ChecksUrl, WriteListing
<1>2. PICK i \in Ids : i = verifier[v].id
  BY <1>1
<1>3. /\ listing[i].status \in Statuses /\ listing[i].ext \in Exts
      /\ verifier[v].status \in Statuses /\ verifier[v].ext \in Exts /\ verifier[v].page \in Exts
  BY Shapes DEF Entries, Errands
<1> DEFINE new == IF verifier[v].page = "none" THEN verifier[v].ext ELSE verifier[v].page
<1>4. PICK e \in Exts : /\ e = Stored(listing[i].ext, verifier[v].ext, new)
                        /\ \/ e = verifier[v].page /\ e # "none"
                           \/ /\ e = listing[i].ext
                              /\ verifier[v].page = "none" \/ verifier[v].page = verifier[v].ext
  BY <1>3 DEF Stored
<1>5. PICK s \in Statuses :
          s = Stored(listing[i].status, verifier[v].status, ActiveAfter(verifier[v].status))
  BY <1>3 DEF Stored, ActiveAfter, Statuses
<1>6. listing' = [listing EXCEPT ![i].ext = Stored(listing[i].ext, verifier[v].ext, new),
                                 ![i].status = Stored(listing[i].status, verifier[v].status, ActiveAfter(verifier[v].status))]
  <2>1. listing' = [listing EXCEPT ![i].ext = Stored(@, verifier[v].ext, new),
                                   ![i].status = Stored(@, verifier[v].status, ActiveAfter(verifier[v].status))]
    BY <1>2 DEF WriteListing
  <2>2. listing[i] \in Entries
    BY Shapes
  <2> QED
    BY <2>1, <2>2, Shapes DEF Entries
<1>7. listing' = [listing EXCEPT ![i].ext = e, ![i].status = s]
  BY <1>4, <1>5, <1>6
<1> QED
  BY <1>2, <1>4, <1>7

LEMMA VerifierTypes ==
    ASSUME Types, ChecksInv, NEW v \in Verifiers, VerifierStep(v) \/ NotFound(v) \/ VerifyFails(v)
    PROVE  Types'
<1> USE Shapes
<1>0. Ids \subseteq 0..MaxHotels
  BY Bounds DEF Ids
<1>i. VerifyEnds(v) => verifier' \in [Verifiers -> Errands]
  BY IdleIs DEF VerifyEnds
<1>o. \A i \in Ids : Overlapped(i) \in [Tenants -> Changes]
  BY DEF Overlapped, Changes
<1>1. ASSUME NEW i \in Ids, TakeVerify(v, i) PROVE Types'
  <2>1. queued' \in [Ids -> Nat]
    BY <1>1 DEF TakeVerify
  <2>2. PICK k \in Keys \cup {"none"} : k = listing[i].key
    OBVIOUS
  <2>3. [[[Unoccupied EXCEPT !.pc = "fetch"] EXCEPT !.id = i] EXCEPT !.key = k] \in Errands
    BY <1>0, IdleIs DEF Errands
  <2>4. verifier' = [verifier EXCEPT ![v] = [[[Unoccupied EXCEPT !.pc = "fetch"] EXCEPT !.id = i] EXCEPT !.key = k]]
    BY <1>1, <2>2 DEF TakeVerify
  <2>5. verifier' \in [Verifiers -> Errands]
    BY <2>3, <2>4
  <2> QED
    BY <1>1, <1>o, <2>1, <2>5, NewTypes DEF TakeVerify
<1>b. ASSUME NEW i \in Ids, listing' = Broken(i) PROVE listing' \in [Ids -> Entries]
  <2>1. PICK s \in Statuses : s = IF listing[i].status = "paused" THEN listing[i].status ELSE "broken"
    BY DEF Statuses
  <2>2. listing' = [listing EXCEPT ![i].status = s]
    BY <1>b, <2>1 DEF Broken
  <2> QED
    BY <2>2, ZenonT(60) DEF Entries
<1>d. verifier[v].pc # "idle" => verifier[v].id \in Ids /\ verifier[v].key \in Keys
  BY DEF ChecksInv, ChecksUrl
<1>2. CASE NotFound(v)
  <2>1. listing' \in [Ids -> Entries]
    BY <1>2, <1>b, <1>d DEF NotFound
  <2> QED
    BY <1>2, <1>i, <2>1, NewTypes DEF NotFound
<1>3. CASE VerifyFails(v)
  <2>1. queued' \in [Ids -> Nat]
    BY <1>3, <1>d DEF VerifyFails
  <2> QED
    BY <1>3, <1>i, <2>1, NewTypes DEF VerifyFails
<1>4. CASE Fetched(v)
  <2>1. PICK e \in ToldBy(verifier[v].key) :
          \/ listing' = Broken(verifier[v].id) /\ VerifyEnds(v)
          \/ verifier' = [verifier EXCEPT ![v].pc = "read", ![v].page = e] /\ UNCHANGED listing
    BY <1>4 DEF Fetched
  <2>2. e \in Exts
    BY <1>4, <1>d DEF Fetched, ToldBy, Exts
  <2>3. listing' \in [Ids -> Entries]
    BY <1>4, <1>b, <1>d, <2>1 DEF Fetched
  <2>4. [[verifier[v] EXCEPT !.pc = "read"] EXCEPT !.page = e] \in Errands
    BY <2>2 DEF Errands
  <2>5. verifier' \in [Verifiers -> Errands]
    BY <1>i, <2>1, <2>4
  <2> QED
    BY <1>4, <2>3, <2>5, NewTypes DEF Fetched
<1>5. CASE ReadListing(v)
  <2>1. PICK s \in Statuses, e \in Exts : s = listing[verifier[v].id].status /\ e = listing[verifier[v].id].ext
    BY <1>5, <1>d DEF ReadListing, Entries
  <2>2. verifier' = [verifier EXCEPT ![v] = [[[verifier[v] EXCEPT !.pc = "write"] EXCEPT !.ext = e] EXCEPT !.status = s]]
    BY <1>5, <2>1 DEF ReadListing
  <2>3. [[[verifier[v] EXCEPT !.pc = "write"] EXCEPT !.ext = e] EXCEPT !.status = s] \in Errands
    BY DEF Errands
  <2>4. verifier' \in [Verifiers -> Errands]
    BY <2>2, <2>3
  <2> QED
    BY <1>5, <2>4, NewTypes DEF ReadListing
<1>6. CASE WriteListing(v)
  <2>1. PICK i \in Ids : i = verifier[v].id
    BY <1>6, <1>d DEF WriteListing
  <2>2. PICK s \in Statuses, e \in Exts : listing' = [listing EXCEPT ![i].ext = e, ![i].status = s]
    BY <1>6, <2>1, WrittenIs
  <2>3. listing' \in [Ids -> Entries]
    BY <2>1, <2>2, TwoFields
  <2>4. bare' \subseteq Ids
    BY <1>6, <2>1 DEF WriteListing
  <2> QED
    BY <1>6, <1>i, <2>3, <2>4, NewTypes DEF WriteListing
<1> QED
  BY <1>1, <1>2, <1>3, <1>4, <1>5, <1>6 DEF VerifierStep

LEMMA ScannerTypes ==
    ASSUME Types, ChecksInv, NEW x \in Scanners, ScannerStep(x)
    PROVE  Types'
<1> USE Shapes
<1>0. Ids \subseteq 0..MaxHotels
  BY Bounds DEF Ids
<1>d. scanner[x].id # 0 => scanner[x].id \in Ids /\ scanner[x].key \in Keys
  BY DEF ChecksInv, ScanUrl
<1>1. ASSUME NEW i \in Ids, LoadForScan(x, i) PROVE Types'
  <2>1. [id |-> i, key |-> listing[i].key] \in Scans
    BY <1>0 DEF Scans
  <2>2. scanner' \in [Scanners -> Scans]
    BY <1>1, <2>1 DEF LoadForScan
  <2>3. Overlapped(i) \in [Tenants -> Changes]
    BY DEF Overlapped, Changes
  <2> QED
    BY <1>1, <2>2, <2>3, NewTypes DEF LoadForScan
<1>2. CASE ScanWrites(x)
  <2>1. PICK e \in Exts : e = IdentityOf[scanner[x].key]
    BY <1>2, <1>d DEF ScanWrites, Exts
  <2>2. PICK i \in Ids : i = scanner[x].id
    BY <1>2, <1>d DEF ScanWrites
  <2>3. listing' = [listing EXCEPT ![i].ext = e]
    BY <1>2, <2>1, <2>2 DEF ScanWrites
  <2>4. [listing[i] EXCEPT !.ext = e] \in Entries
    BY DEF Entries
  <2>5. listing' \in [Ids -> Entries]
    BY <2>3, <2>4
  <2> QED
    BY <1>2, <2>5, NewTypes DEF ScanWrites, jobVars
<1>3. CASE ScanEnds(x)
  <2>1. scanner' \in [Scanners -> Scans]
    BY <1>3, NothingIs DEF ScanEnds
  <2> QED
    BY <1>3, <2>1, NewTypes DEF ScanEnds
<1>4. CASE ScanFindsNothing(x)
  <2>1. scanner' \in [Scanners -> Scans]
    BY <1>4, NothingIs DEF ScanFindsNothing
  <2>2. PICK i \in Ids : i = scanner[x].id
    BY <1>4, <1>d DEF ScanFindsNothing
  <2>3. [listing[i] EXCEPT !.status = "broken"] \in Entries
    BY DEF Entries, Statuses
  <2>4. listing' \in [Ids -> Entries]
    BY <1>4, <2>2, <2>3 DEF ScanFindsNothing
  <2> QED
    BY <1>4, <2>1, <2>4, NewTypes DEF ScanFindsNothing
<1> QED
  BY <1>1, <1>2, <1>3, <1>4 DEF ScannerStep

\* What a change of a URL writes.
LEMMA ChangedIs ==
    ASSUME Types, RowsInv, ChecksInv, NEW t \in Tenants, NEW i \in Ids, CommitChange(t, i)
    PROVE  /\ i = change[t].id /\ Saved(i) /\ listing' \in [Ids -> Entries]
           /\ listing'[i].by = listing[i].by
           /\ listing'[i].key \in Keys /\ \A j \in Ids : j # i => listing'[i].key # listing[j].key
           /\ listing'[i].ext = "none" \/ (listing'[i].ext = listing[i].ext /\ change[t].was.ext = "none")
           /\ \/ listing'[i].status = "unverified"
              \/ listing'[i].status = listing[i].status /\ change[t].was.status = "unverified"
           /\ \A j \in Ids : j # i => listing'[j] = listing[j]
<1>0. i # 0
  BY Bounds DEF Ids
<1>1. i = change[t].id /\ SameUrl(t, i) = {}
  BY DEF CommitChange
<1>2. Saved(i) /\ change[t].key \in Keys
  BY <1>0, <1>1 DEF ChecksInv, ChangeRead
<1>3. listing[i] \in Entries /\ listing[i].key \in Keys /\ listing \in [Ids -> Entries]
  <2>1. listing[i] \in Entries /\ listing \in [Ids -> Entries]
    BY Shapes
  <2>2. listing[i].by # "none"
    BY <1>2 DEF Saved
  <2> QED
    BY <2>1, <2>2 DEF RowsInv, BlankOrWhole
<1>4. PICK c : c = change[t]
  OBVIOUS
<1> DEFINE k == Stored(listing[i].key, c.was.key, c.key)
           e == Stored(listing[i].ext, c.was.ext, "none")
           s == Stored(listing[i].status, c.was.status, "unverified")
           l == [[[listing[i] EXCEPT !.key = k] EXCEPT !.ext = e] EXCEPT !.status = s]
<1>5. k \in Keys /\ (e = "none" \/ (e = listing[i].ext /\ c.was.ext = "none"))
      /\ (s = "unverified" \/ (s = listing[i].status /\ c.was.status = "unverified"))
  BY <1>2, <1>3, <1>4 DEF Stored
<1>6. \A j \in Ids : j # i => k # listing[j].key
  <2>1. CASE c.key # c.was.key
    <3>1. k = c.key
      BY <2>1 DEF Stored
    <3> QED
      BY <1>1, <1>4, <2>1, <3>1 DEF SameUrl
  <2>2. CASE c.key = c.was.key
    <3>1. k = listing[i].key
      BY <2>2 DEF Stored
    <3>2. ASSUME NEW j \in Ids, j # i, listing[j].key = listing[i].key PROVE FALSE
      <4>1. listing[i].by = "none"
        BY <3>2 DEF RowsInv, OneKeyEach
      <4> QED
        BY <1>2, <4>1 DEF Saved
    <3> QED
      BY <3>1, <3>2
  <2> QED
    BY <2>1, <2>2
<1>7. listing' = [listing EXCEPT ![i] = l]
  BY <1>3, <1>4 DEF CommitChange, UrlChanged, Entries
<1>8. e \in Exts /\ s \in Statuses
  BY <1>3, <1>5 DEF Entries, Exts, Statuses
<1> HIDE DEF k, e, s
<1>9. l \in Entries /\ l.by = listing[i].by /\ l.key = k /\ l.ext = e /\ l.status = s
  BY <1>3, <1>5, <1>8 DEF Entries
<1> HIDE DEF l
<1>10. listing' \in [Ids -> Entries] /\ listing'[i] = l /\ \A j \in Ids : j # i => listing'[j] = listing[j]
  BY <1>3, <1>7, <1>9
<1> QED
  BY <1>1, <1>2, <1>4, <1>5, <1>6, <1>9, <1>10

LEMMA UserTypes ==
    ASSUME Types, RowsInv, ChecksInv, NEW t \in Tenants, NEW i \in Ids, UserStep(t, i)
    PROVE  Types'
<1> USE Shapes
<1>q. PushVerifyOrLose(i) => queued' \in [Ids -> Nat]
  BY DEF PushVerifyOrLose, PushVerify
<1>s. \A s \in Statuses : [listing EXCEPT ![i].status = s] \in [Ids -> Entries]
  BY DEF Entries
<1>1. CASE PauseListing(t, i)
  <2>1. listing' \in [Ids -> Entries]
    BY <1>1, <1>s DEF PauseListing, Statuses
  <2> QED
    BY <1>1, <2>1, NewTypes DEF PauseListing, jobVars
<1>2. CASE VerifyAgain(t, i)
  <2>1. listing' \in [Ids -> Entries]
    BY <1>2, <1>s DEF VerifyAgain, Statuses
  <2> QED
    BY <1>2, <1>q, <2>1, NewTypes DEF VerifyAgain
<1>3. CASE Unwatch(t, i)
  BY <1>3, NewTypes DEF Unwatch, jobVars
<1>4. ASSUME NEW k \in Keys, StartChange(t, i, k) PROVE Types'
  <2>0. UnderWay(i) \in BOOLEAN
    BY Zenon DEF UnderWay
  <2>1. listing[i] \in Entries /\ i \in 0..MaxHotels /\ UnderWay(i) \in BOOLEAN
    BY <2>0, Bounds DEF Ids
  <2>2. [id |-> i, key |-> k, was |-> listing[i], over |-> UnderWay(i)] \in Changes
    BY <2>1 DEF Changes
  <2>3. change' \in [Tenants -> Changes]
    BY <1>4, <2>2 DEF StartChange
  <2> QED
    BY <1>4, <2>3, NewTypes DEF StartChange
<1>5. CASE CommitChange(t, i)
  <2>1. listing' \in [Ids -> Entries]
    BY <1>5, ChangedIs
  <2>2. change' \in [Tenants -> Changes] /\ moved' \subseteq Ids /\ bare' \subseteq Ids
    BY <1>5, NothingIs DEF CommitChange
  <2>3. queued' \in [Ids -> Nat]
    BY <1>5, <1>q DEF CommitChange
  <2> QED
    BY <1>5, <2>1, <2>2, <2>3, NewTypes DEF CommitChange
<1> QED
  BY <1>1, <1>2, <1>3, <1>4, <1>5 DEF UserStep

LEMMA RefusedTypes ==
    ASSUME Types, NEW t \in Tenants, ChangeRefused(t)
    PROVE  Types'
<1>1. change' \in [Tenants -> Changes]
  BY Shapes, NothingIs DEF ChangeRefused
<1> QED
  BY <1>1, Shapes, NewTypes DEF ChangeRefused

-----------------------------------------------------------------------------
(* Verifiers and users leave the rows of transactions alone.                 *)

LEMMA RowsKept ==
    ASSUME Types, RowsInv, UNCHANGED <<maker, hotelRow>>, watch' \subseteq watch, OneKeyEach',
           \A i \in Ids : /\ listing'[i].by = listing[i].by
                          /\ listing[i].by = "none" => listing'[i] = listing[i]
                          /\ listing[i].by # "none" => listing'[i].key \in Keys
    PROVE  RowsInv'
<1>i. Ids' = Ids
  BY DEF Ids
<1>1. OwnRows' /\ AtWork'
  BY <1>i DEF RowsInv, OwnRows, AtWork
<1>2. BlankOrWhole'
  BY <1>i DEF RowsInv, BlankOrWhole, NoListing
<1>3. Watched'
  BY DEF RowsInv, Watched
<1>4. ASSUME NEW m \in Makers PROVE (Inserts(m) /\ IsNew(m) /\ MayLink(m))'
  BY <1>i DEF RowsInv, Inserts, IsNew, MayLink
<1>5. ASSUME NEW m \in Makers PROVE ReadsHold(m)'
  BY <1>i DEF RowsInv, ReadsHold, Saved
<1> QED
  BY <1>1, <1>2, <1>3, <1>4, <1>5 DEF RowsInv

\* A saved listing gets another status, or identity: its rows are the same.
LEMMA StatusKeepsRows ==
    ASSUME Types, RowsInv, UNCHANGED <<maker, hotelRow>>, watch' \subseteq watch,
           NEW i \in Ids, Saved(i), NEW s \in Statuses, NEW e \in Exts,
           listing' = [listing EXCEPT ![i].ext = e, ![i].status = s]
    PROVE  RowsInv'
<1>1. listing[i] \in Entries /\ listing \in [Ids -> Entries]
  BY Shapes
<1>2. /\ listing'[i].by = listing[i].by /\ listing'[i].key = listing[i].key
      /\ \A j \in Ids : j # i => listing'[j] = listing[j]
  BY <1>1 DEF Entries
<1>i. Ids' = Ids
  BY DEF Ids
<1>a. \A j \in Ids : listing'[j].by = listing[j].by /\ listing'[j].key = listing[j].key
  BY <1>2
<1>3. OneKeyEach'
  BY <1>a, <1>i DEF RowsInv, OneKeyEach
<1>4. listing[i].by # "none"
  BY DEF Saved
<1>5. \A j \in Ids : listing[j].by # "none" => listing[j].key \in Keys
  BY DEF RowsInv, BlankOrWhole
<1> QED
  BY <1>2, <1>3, <1>4, <1>5, RowsKept

\* The same of a status alone.
LEMMA JustStatus ==
    ASSUME Types, NEW i \in Ids, NEW s \in Statuses, listing' = [listing EXCEPT ![i].status = s]
    PROVE  \E e \in Exts : listing' = [listing EXCEPT ![i].ext = e, ![i].status = s]
<1>1. PICK e \in Exts : e = listing[i].ext
  BY Shapes DEF Entries
<1>2. listing[i] \in Entries
  BY Shapes
<1>3. [[listing[i] EXCEPT !.ext = e] EXCEPT !.status = s] = [listing[i] EXCEPT !.status = s]
  BY <1>1, <1>2 DEF Entries
<1> QED
  BY <1>1, <1>3

LEMMA SameKeepsRows ==
    ASSUME Types, RowsInv, UNCHANGED <<maker, hotelRow, listing>>, watch' \subseteq watch
    PROVE  RowsInv'
<1>1. OneKeyEach'
  BY DEF RowsInv, OneKeyEach, Ids
<1>2. \A j \in Ids : listing[j].by # "none" => listing[j].key \in Keys
  BY DEF RowsInv, BlankOrWhole
<1> QED
  BY <1>1, <1>2, RowsKept

LEMMA BrokenIs ==
    ASSUME Types, NEW i \in Ids, listing' = Broken(i)
    PROVE  \E s \in Statuses : listing' = [listing EXCEPT ![i].status = s] /\ s # "active"
<1>1. listing[i].status \in Statuses
  BY Shapes DEF Entries
<1>2. PICK s \in Statuses : s = IF listing[i].status = "paused" THEN listing[i].status ELSE "broken"
  BY <1>1 DEF Statuses
<1> QED
  BY <1>2 DEF Broken

LEMMA VerifierRows ==
    ASSUME Types, RowsInv, ChecksInv, NEW v \in Verifiers, VerifierStep(v) \/ NotFound(v) \/ VerifyFails(v)
    PROVE  RowsInv'
<1>d. verifier[v].pc # "idle" => verifier[v].id \in Ids /\ Saved(verifier[v].id)
  BY DEF ChecksInv, ChecksUrl
<1>b. ASSUME NEW i \in Ids, Saved(i), listing' = Broken(i), UNCHANGED <<maker, hotelRow, watch>>
      PROVE  RowsInv'
  <2>1. PICK s \in Statuses : listing' = [listing EXCEPT ![i].status = s]
    BY <1>b, BrokenIs
  <2>2. PICK e \in Exts : listing' = [listing EXCEPT ![i].ext = e, ![i].status = s]
    BY <2>1, JustStatus
  <2> QED
    BY <1>b, <2>2, StatusKeepsRows
<1>1. ASSUME NEW i \in Ids, TakeVerify(v, i) PROVE RowsInv'
  BY <1>1, SameKeepsRows DEF TakeVerify
<1>2. CASE NotFound(v)
  BY <1>2, <1>b, <1>d DEF NotFound
<1>3. CASE VerifyFails(v)
  BY <1>3, SameKeepsRows DEF VerifyFails
<1>4. CASE Fetched(v)
  <2>1. listing' = Broken(verifier[v].id) \/ UNCHANGED listing
    <3>1. PICK e \in ToldBy(verifier[v].key) :
            \/ listing' = Broken(verifier[v].id)
            \/ UNCHANGED listing
      BY <1>4 DEF Fetched
    <3> QED
      BY <3>1
  <2>2. UNCHANGED <<maker, hotelRow, watch>> /\ verifier[v].pc = "fetch"
    BY <1>4 DEF Fetched
  <2>3. CASE listing' = Broken(verifier[v].id)
    BY <1>b, <1>d, <2>2, <2>3
  <2>4. CASE UNCHANGED listing
    BY <2>2, <2>4, SameKeepsRows
  <2> QED
    BY <2>1, <2>3, <2>4
<1>5. CASE ReadListing(v)
  BY <1>5, SameKeepsRows DEF ReadListing
<1>6. CASE WriteListing(v)
  <2>1. PICK i \in Ids : i = verifier[v].id /\ Saved(i)
    BY <1>6, <1>d DEF WriteListing
  <2>2. PICK s \in Statuses, e \in Exts : listing' = [listing EXCEPT ![i].ext = e, ![i].status = s]
    <3>1. PICK s \in Statuses, e \in Exts :
              listing' = [listing EXCEPT ![verifier[v].id].ext = e, ![verifier[v].id].status = s]
      BY <1>6, WrittenIs
    <3> QED
      BY <2>1, <3>1
  <2>3. UNCHANGED <<maker, hotelRow, watch>>
    BY <1>6 DEF WriteListing
  <2> QED
    BY <2>1, <2>2, <2>3, StatusKeepsRows
<1> QED
  BY <1>1, <1>2, <1>3, <1>4, <1>5, <1>6 DEF VerifierStep

LEMMA ScannerRows ==
    ASSUME Types, RowsInv, ChecksInv, NEW x \in Scanners, ScannerStep(x)
    PROVE  RowsInv'
<1>d. scanner[x].id # 0 =>
          scanner[x].id \in Ids /\ Saved(scanner[x].id) /\ scanner[x].key \in Keys
  BY DEF ChecksInv, ScanUrl
<1>1. ASSUME NEW i \in Ids, LoadForScan(x, i) PROVE RowsInv'
  BY <1>1, SameKeepsRows DEF LoadForScan
<1>2. CASE ScanWrites(x)
  <2>1. PICK i \in Ids : i = scanner[x].id /\ Saved(i)
    BY <1>2, <1>d DEF ScanWrites
  <2>2. PICK e \in Exts : e = IdentityOf[scanner[x].key]
    BY <1>2, <1>d DEF ScanWrites, Exts
  <2>3. PICK s \in Statuses : s = listing[i].status
    BY Shapes DEF Entries
  <2>4. [listing[i] EXCEPT !.ext = e] = [[listing[i] EXCEPT !.ext = e] EXCEPT !.status = s]
    BY <2>3, Shapes DEF Entries
  <2>5. listing' = [listing EXCEPT ![i].ext = e, ![i].status = s]
    BY <1>2, <2>1, <2>2, <2>4 DEF ScanWrites
  <2>6. UNCHANGED <<maker, hotelRow, watch>>
    BY <1>2 DEF ScanWrites
  <2> QED
    BY <2>1, <2>5, <2>6, StatusKeepsRows
<1>3. CASE ScanEnds(x)
  BY <1>3, SameKeepsRows DEF ScanEnds
<1>4. CASE ScanFindsNothing(x)
  <2>1. PICK i \in Ids : i = scanner[x].id /\ Saved(i)
    BY <1>4, <1>d DEF ScanFindsNothing
  <2>2. PICK s \in Statuses : s = "broken"
    BY DEF Statuses
  <2>3. listing' = [listing EXCEPT ![i].status = s] /\ UNCHANGED <<maker, hotelRow, watch>>
    BY <1>4, <2>1, <2>2 DEF ScanFindsNothing
  <2>4. PICK e \in Exts : listing' = [listing EXCEPT ![i].ext = e, ![i].status = s]
    BY <2>3, JustStatus
  <2> QED
    BY <2>1, <2>3, <2>4, StatusKeepsRows
<1> QED
  BY <1>1, <1>2, <1>3, <1>4 DEF ScannerStep

LEMMA UserRows ==
    ASSUME Types, RowsInv, ChecksInv, NEW t \in Tenants, NEW i \in Ids, UserStep(t, i)
    PROVE  RowsInv'
<1>s. ASSUME NEW s \in Statuses, Saved(i), listing' = [listing EXCEPT ![i].status = s],
             UNCHANGED <<maker, hotelRow, watch>>
      PROVE  RowsInv'
  <2>1. PICK e \in Exts : listing' = [listing EXCEPT ![i].ext = e, ![i].status = s]
    BY <1>s, JustStatus
  <2> QED
    BY <1>s, <2>1, StatusKeepsRows
<1>1. CASE PauseListing(t, i)
  BY <1>1, <1>s DEF PauseListing, Statuses
<1>2. CASE VerifyAgain(t, i)
  BY <1>2, <1>s DEF VerifyAgain, Statuses
<1>3. CASE Unwatch(t, i)
  BY <1>3, SameKeepsRows DEF Unwatch
<1>4. ASSUME NEW k \in Keys, StartChange(t, i, k) PROVE RowsInv'
  BY <1>4, SameKeepsRows DEF StartChange
<1>5. CASE CommitChange(t, i)
  <2>1. /\ Saved(i) /\ listing'[i].by = listing[i].by /\ listing'[i].key \in Keys
        /\ \A j \in Ids : j # i => listing'[i].key # listing[j].key
        /\ \A j \in Ids : j # i => listing'[j] = listing[j]
    BY <1>5, ChangedIs
  <2>2. OneKeyEach'
    BY <2>1 DEF RowsInv, OneKeyEach, Ids
  <2>3. listing[i].by # "none"
    BY <2>1 DEF Saved
  <2>4. \A j \in Ids : listing[j].by # "none" => listing[j].key \in Keys
    BY DEF RowsInv, BlankOrWhole
  <2>5. UNCHANGED <<maker, hotelRow, watch>>
    BY <1>5 DEF CommitChange
  <2> QED
    BY <2>1, <2>2, <2>3, <2>4, <2>5, RowsKept
<1> QED
  BY <1>1, <1>2, <1>3, <1>4, <1>5 DEF UserStep

-----------------------------------------------------------------------------
(* Transactions.                                                             *)

\* What a maker's row says of the hotel's, with the names kept apart.
LEMMA Names ==
    ASSUME RowsInv, NEW i \in Ids
    PROVE  /\ listing[i].by # "none" => hotelRow[i] = listing[i].by /\ listing[i].key \in Keys
           /\ hotelRow[i] = "none" => listing[i].by = "none"
           /\ hotelRow[i] = "saved" => listing[i].by = "saved"
           /\ listing[i].by = "none" => listing[i] = NoListing
           /\ "none" \notin Makers /\ "saved" \notin Makers /\ "none" \notin Keys
BY Bounds DEF RowsInv, OwnRows, BlankOrWhole

\* A step that moves the maker between two of its cards.
LEMMA MakerMoves ==
    ASSUME Types, RowsInv, NEW m \in Makers, UNCHANGED <<hotelRow, listing, watch>>,
           \A n \in Makers : n # m => maker'[n] = maker[n],
           maker[m].pc # "insert", maker'[m].pc = "make", MayLink(m)', ReadsHold(m)'
    PROVE  RowsInv'
<1>i. Ids' = Ids
  BY DEF Ids
<1>1. OwnRows' /\ AtWork'
  BY <1>i DEF RowsInv, OwnRows, AtWork
<1>2. BlankOrWhole' /\ OneKeyEach' /\ Watched'
  BY <1>i DEF RowsInv, BlankOrWhole, OneKeyEach, Watched, NoListing
<1>3. ASSUME NEW n \in Makers, n # m PROVE (Inserts(n) /\ IsNew(n) /\ MayLink(n) /\ ReadsHold(n))'
  BY <1>i, <1>3 DEF RowsInv, Inserts, IsNew, MayLink, ReadsHold, Saved
<1>4. (Inserts(m) /\ IsNew(m))'
  BY DEF Inserts, IsNew
<1> QED
  BY <1>1, <1>2, <1>3, <1>4 DEF RowsInv

\* A transaction begins: it has no row yet, so that what it reads is saved.
LEMMA FirstReads ==
    ASSUME RowsInv, NEW m \in Makers, maker[m].pc = "rest", NEW key, NEW page
    PROVE  Lookup(m, key, page) # 0 => Lookup(m, key, page) \in Ids /\ Saved(Lookup(m, key, page))
<1>1. \A i \in Ids : listing[i].by # m
  BY Names DEF RowsInv, AtWork
<1> QED
  BY <1>1, LookupIn DEF Saved

LEMMA StartRows ==
    ASSUME Types, RowsInv, Types', NEW m \in Makers,
           \/ \E p \in Pages : StartPage(m, p)
           \/ \E t \in Tenants, k \in Keys : StartAdd(m, t, k)
    PROVE  RowsInv'
<1>1. ASSUME NEW p \in Pages, StartPage(m, p) PROVE RowsInv'
  <2> DEFINE K == {p[n] : n \in DOMAIN p}
             read == [k \in K |-> Lookup(m, k, TRUE)]
  <2>1. maker' = [maker EXCEPT ![m] = [AtRest EXCEPT !.pc = "make", !.todo = p, !.known = read]]
    BY <1>1 DEF StartPage
  <2>2. \A k \in K : Lookup(m, k, TRUE) # 0 => Lookup(m, k, TRUE) \in Ids /\ Saved(Lookup(m, k, TRUE))
    BY <1>1, FirstReads, Zenon DEF StartPage
  <2>3. \A n \in DOMAIN p : p[n] \in K
    OBVIOUS
  <2> HIDE DEF K
  <2>4. DOMAIN read = K /\ \A k \in K : read[k] = 0 \/ (read[k] \in Ids /\ Saved(read[k]))
    BY <2>2
  <2> HIDE DEF read
  <2>5. /\ maker'[m].pc = "make" /\ maker'[m].todo = p /\ maker'[m].known = read /\ maker'[m].tenant = "none"
        /\ \A n \in Makers : n # m => maker'[n] = maker[n]
    BY <2>1, Shapes, RestIs DEF Work
  <2>6. UNCHANGED <<hotelRow, listing, watch>> /\ maker[m].pc # "insert"
    BY <1>1 DEF StartPage
  <2>7. ReadsHold(m)' /\ MayLink(m)'
    BY <2>3, <2>4, <2>5, <2>6 DEF ReadsHold, MayLink, Saved, Ids
  <2> QED
    BY <2>5, <2>6, <2>7, MakerMoves
<1>2. ASSUME NEW t \in Tenants, NEW k \in Keys, StartAdd(m, t, k) PROVE RowsInv'
  <2> DEFINE read == [x \in {k} |-> Lookup(m, x, FALSE)]
  <2>1. maker' = [maker EXCEPT ![m] = [AtRest EXCEPT !.pc = "make", !.todo = <<k>>, !.tenant = t, !.known = read]]
    BY <1>2 DEF StartAdd
  <2>2. \A x \in {k} : Lookup(m, x, FALSE) # 0 => Lookup(m, x, FALSE) \in Ids /\ Saved(Lookup(m, x, FALSE))
    BY <1>2, FirstReads, Zenon DEF StartAdd
  <2>3. \A n \in DOMAIN <<k>> : <<k>>[n] \in {k}
    OBVIOUS
  <2>4. DOMAIN read = {k} /\ \A x \in {k} : read[x] = 0 \/ (read[x] \in Ids /\ Saved(read[x]))
    BY <2>2
  <2> HIDE DEF read
  <2>5. /\ maker'[m].pc = "make" /\ maker'[m].todo = <<k>> /\ maker'[m].known = read
        /\ \A n \in Makers : n # m => maker'[n] = maker[n]
    BY <2>1, Shapes, RestIs DEF Work
  <2>6. UNCHANGED <<hotelRow, listing, watch>> /\ maker[m].pc # "insert"
    BY <1>2 DEF StartAdd
  <2>7. ReadsHold(m)' /\ MayLink(m)'
    <3>1. <<k>> # << >>
      OBVIOUS
    <3>2. MayLink(m)'
      BY <2>5, <3>1 DEF MayLink
    <3>3. ReadsHold(m)'
      BY <2>3, <2>4, <2>5, <2>6 DEF ReadsHold, Saved, Ids
    <3> QED
      BY <3>2, <3>3
  <2> QED
    BY <2>5, <2>6, <2>7, MakerMoves
<1> QED
  BY <1>1, <1>2

\* The cards that are left were read, too.
LEMMA TailReads ==
    ASSUME Types, RowsInv, NEW m \in Makers, maker[m].todo # << >>,
           \A i \in Ids : Saved(i) => listing'[i].by = "saved",
           maker'[m].todo = Tail(maker[m].todo), maker'[m].known = maker[m].known
    PROVE  ReadsHold(m)'
<1>1. maker[m].todo \in Seq(Keys)
  BY Shapes
<1>2. \A n \in DOMAIN Tail(maker[m].todo) : Tail(maker[m].todo)[n] \in DOMAIN maker[m].known
  <2>1. ASSUME NEW n \in DOMAIN Tail(maker[m].todo)
        PROVE  Tail(maker[m].todo)[n] \in DOMAIN maker[m].known
    <3>1. PICK k \in DOMAIN maker[m].todo : Tail(maker[m].todo)[n] = maker[m].todo[k]
      BY <1>1, TailIs
    <3> QED
      BY <3>1 DEF RowsInv, ReadsHold
  <2> QED
    BY <2>1
<1>3. \A k \in DOMAIN maker[m].known :
          maker[m].known[k] = 0 \/ (maker[m].known[k] \in Ids /\ Saved(maker[m].known[k]))
  BY DEF RowsInv, ReadsHold
<1> QED
  BY <1>2, <1>3 DEF ReadsHold, Saved, Ids

LEMMA UseRows ==
    ASSUME Types, RowsInv, NEW m \in Makers, UseKnown(m)
    PROVE  RowsInv'
<1>1. /\ KnownHotel(m) \in Ids /\ KnownHotel(m) \in 0..MaxHotels /\ Saved(KnownHotel(m))
      /\ maker[m].todo # << >> /\ maker[m].pc = "make"
  BY KnownIn DEF UseKnown
<1>2. PICK i \in 0..MaxHotels : i = KnownHotel(m)
  BY <1>1
<1>3. maker' = Pop(m, i)
  BY <1>2 DEF UseKnown
<1>4. /\ maker'[m].todo = Tail(maker[m].todo) /\ maker'[m].pc = "make" /\ maker'[m].id = i
      /\ maker'[m].known = maker[m].known /\ \A n \in Makers : n # m => maker'[n] = maker[n]
  BY <1>1, <1>3, PopIs, Shapes
<1>5. UNCHANGED <<hotelRow, listing, watch>>
  BY DEF UseKnown
<1>6. ReadsHold(m)'
  BY <1>1, <1>4, <1>5, TailReads DEF Saved
<1>7. MayLink(m)'
  BY <1>1, <1>2, <1>4, <1>5, Names DEF MayLink, Saved, Ids
<1> QED
  BY <1>1, <1>4, <1>5, <1>6, <1>7, MakerMoves

LEMMA InsertHotelRows ==
    ASSUME Types, RowsInv, NEW m \in Makers, InsertHotel(m)
    PROVE  RowsInv'
<1>i. Ids' = Ids
  BY DEF Ids
<1>1. PICK f \in Ids : f = OneOf(FreeIds) /\ hotelRow[f] = "none"
  BY OneOfIn DEF InsertHotel, FreeIds
<1>2. /\ hotelRow'[f] = m /\ \A i \in Ids : i # f => hotelRow'[i] = hotelRow[i]
      /\ UNCHANGED <<listing, watch>> /\ maker[m].pc = "make" /\ maker[m].todo # << >>
  BY <1>1, Shapes DEF InsertHotel
<1>3. maker' = [maker EXCEPT ![m] = [[maker[m] EXCEPT !.pc = "insert"] EXCEPT !.id = f]]
  BY <1>1 DEF InsertHotel
<1>4. /\ maker'[m].pc = "insert" /\ maker'[m].id = f /\ maker'[m].todo = maker[m].todo
      /\ maker'[m].known = maker[m].known /\ \A n \in Makers : n # m => maker'[n] = maker[n]
  BY <1>3, Shapes DEF Work
<1>5. listing[f].by = "none"
  BY <1>1, Names
<1>6. OwnRows'
  BY <1>2, <1>4, <1>5, <1>i, Bounds DEF RowsInv, OwnRows
<1>7. BlankOrWhole' /\ OneKeyEach'
  BY <1>2, <1>i DEF RowsInv, BlankOrWhole, OneKeyEach, NoListing
<1>8. AtWork'
  BY <1>2, <1>4, <1>i DEF RowsInv, AtWork
<1>9. Watched'
  <2>1. \A x \in watch : x[2] \in Ids
    BY Shapes
  <2>2. \A x \in watch : hotelRow[x[2]] = "saved" /\ x[2] # f
    BY <1>1 DEF RowsInv, Watched
  <2> QED
    BY <1>2, <2>1, <2>2 DEF Watched
<1>10. ASSUME NEW n \in Makers, n # m PROVE (Inserts(n) /\ IsNew(n) /\ MayLink(n) /\ ReadsHold(n))'
  BY <1>1, <1>2, <1>4, <1>10, <1>i, Bounds DEF RowsInv, Inserts, IsNew, MayLink, ReadsHold, Saved
<1>11. (Inserts(m) /\ IsNew(m) /\ MayLink(m))'
  BY <1>2, <1>4, <1>5, <1>i DEF Inserts, IsNew, MayLink
<1>12. ReadsHold(m)'
  BY <1>2, <1>4, <1>i DEF RowsInv, ReadsHold, Saved
<1> QED
  BY <1>6, <1>7, <1>8, <1>9, <1>10, <1>11, <1>12 DEF RowsInv

LEMMA InsertListingIs ==
    ASSUME Types, RowsInv, NEW m \in Makers, InsertListing(m)
    PROVE  /\ maker[m].id \in Ids /\ maker[m].todo # << >>
           /\ hotelRow[maker[m].id] = m /\ listing[maker[m].id].by = "none"
           /\ Head(maker[m].todo) \in Keys
           /\ listing'[maker[m].id].key = Head(maker[m].todo) /\ listing'[maker[m].id].by = m
           /\ listing'[maker[m].id].status = "active" =>
                listing'[maker[m].id].ext = CardId(Head(maker[m].todo))
           /\ listing'[maker[m].id].status # "active" => listing'[maker[m].id].ext = "none"
           /\ \A j \in Ids : j # maker[m].id => listing'[j] = listing[j]
           /\ maker'[m].todo = Tail(maker[m].todo) /\ maker'[m].pc \in {"make", "new"}
           /\ maker'[m].id = maker[m].id /\ maker'[m].known = maker[m].known
           /\ \A n \in Makers : n # m => maker'[n] = maker[n]
           /\ UNCHANGED <<hotelRow, watch, queued, verifier, scanner, change, moved, bare>>
<1>1. /\ maker[m].id \in Ids /\ maker[m].todo # << >>
      /\ hotelRow[maker[m].id] = m /\ listing[maker[m].id].by = "none"
  BY DEF InsertListing, RowsInv, Inserts
<1>2. PICK h \in Ids : h = maker[m].id
  BY <1>1
<1>3. h \in 0..MaxHotels
  BY Bounds DEF Ids
<1>4. PICK k \in Keys : k = Head(maker[m].todo)
  BY <1>1, TailIs, Shapes
<1> DEFINE page == maker[m].tenant = "none"
           e == [key |-> k, ext |-> IF page THEN CardId(k) ELSE "none",
                 status |-> IF page THEN "active" ELSE "unverified", by |-> m]
<1>5. listing' = [listing EXCEPT ![h] = e]
  BY <1>2, <1>4 DEF InsertListing
<1>6. e.key = k /\ e.by = m /\ (e.status = "active" => e.ext = CardId(k)) /\ (e.status # "active" => e.ext = "none")
  OBVIOUS
<1> HIDE DEF e
<1>7. /\ listing'[h].key = k /\ listing'[h].by = m
      /\ listing'[h].status = "active" => listing'[h].ext = CardId(k)
      /\ listing'[h].status # "active" => listing'[h].ext = "none"
      /\ \A j \in Ids : j # h => listing'[j] = listing[j]
  BY <1>5, <1>6, Shapes
<1>8. PICK s \in {"make", "new"} : maker' = [Pop(m, h) EXCEPT ![m].pc = s]
  BY <1>2 DEF InsertListing
<1>9. /\ Pop(m, h) \in [Makers -> Work] /\ Pop(m, h)[m].todo = Tail(maker[m].todo) /\ Pop(m, h)[m].id = h
      /\ Pop(m, h)[m].known = maker[m].known /\ \A n \in Makers : n # m => Pop(m, h)[n] = maker[n]
  BY <1>1, <1>3, PopIs, Shapes
<1>10. Pop(m, h)[m] \in Work
  BY <1>9
<1>11. /\ maker'[m] = [Pop(m, h)[m] EXCEPT !.pc = s]
       /\ \A n \in Makers : n # m => maker'[n] = maker[n]
  BY <1>8, <1>9
<1>12. /\ maker'[m].todo = Tail(maker[m].todo) /\ maker'[m].pc = s /\ maker'[m].id = h
       /\ maker'[m].known = maker[m].known
  BY <1>9, <1>10, <1>11 DEF Work
<1>13. UNCHANGED <<hotelRow, watch, queued, verifier, scanner, change, moved, bare>>
  BY DEF InsertListing, jobVars
<1> QED
  BY <1>1, <1>2, <1>4, <1>7, <1>11, <1>12, <1>13

LEMMA InsertListingRows ==
    ASSUME Types, RowsInv, NEW m \in Makers, InsertListing(m)
    PROVE  RowsInv'
<1>i. Ids' = Ids
  BY DEF Ids
<1>1. PICK h \in Ids : h = maker[m].id
  BY InsertListingIs
<1>2. PICK k \in Keys : k = Head(maker[m].todo)
  BY InsertListingIs
<1>3. /\ maker[m].todo # << >> /\ hotelRow[h] = m /\ listing[h].by = "none"
      /\ listing'[h].key = k /\ listing'[h].by = m
      /\ \A j \in Ids : j # h => listing'[j] = listing[j]
  BY <1>1, <1>2, InsertListingIs
<1>4. /\ maker'[m].todo = Tail(maker[m].todo) /\ maker'[m].pc \in {"make", "new"}
      /\ maker'[m].id = h /\ maker'[m].known = maker[m].known
      /\ \A n \in Makers : n # m => maker'[n] = maker[n]
      /\ UNCHANGED <<hotelRow, watch>>
  BY <1>1, InsertListingIs
<1>5. ASSUME NEW j \in Ids, listing[j].by # "none" PROVE listing[j].key # k
  <2>1. Of(m, k) = {} /\ Holders(m) = {}
    BY <1>2 DEF InsertListing
  <2>2. listing[j] # NoListing
    BY <1>5, BlankIs
  <2>3. CASE j \in Visible(m)
    BY <2>1, <2>3 DEF Of
  <2>4. CASE j \notin Visible(m)
    BY <1>2, <2>1, <2>2, <2>4 DEF Holders
  <2> QED
    BY <2>3, <2>4
<1>6. OwnRows'
  BY <1>3, <1>4, <1>i, Bounds DEF RowsInv, OwnRows
<1>7. BlankOrWhole'
  BY <1>3, <1>i, Bounds DEF RowsInv, BlankOrWhole, NoListing
<1>8. OneKeyEach'
  <2>1. ASSUME NEW i \in Ids, NEW j \in Ids, listing'[i].key = listing'[j].key, i # j
        PROVE  listing'[i].by = "none"
    <3>1. CASE i = h
      BY <1>2, <1>3, <1>5, <2>1, <3>1, Names, BlankIs
    <3>2. CASE i # h /\ j = h
      BY <1>3, <1>5, <2>1, <3>2
    <3>3. CASE i # h /\ j # h
      BY <1>3, <2>1, <3>3 DEF RowsInv, OneKeyEach
    <3> QED
      BY <3>1, <3>2, <3>3
  <2> QED
    BY <1>i, <2>1 DEF OneKeyEach
<1>9. AtWork'
  BY <1>4, <1>i DEF RowsInv, AtWork
<1>10. Watched'
  BY <1>4 DEF RowsInv, Watched
<1>11. \A i \in Ids : Saved(i) => listing'[i].by = "saved"
  BY <1>3 DEF Saved
<1>12. ASSUME NEW n \in Makers, n # m PROVE (Inserts(n) /\ IsNew(n) /\ MayLink(n) /\ ReadsHold(n))'
  <2>1. (Inserts(n) /\ IsNew(n) /\ MayLink(n))'
    BY <1>3, <1>4, <1>12, <1>i, Bounds DEF RowsInv, Inserts, IsNew, MayLink
  <2>2. ReadsHold(n)'
    BY <1>4, <1>11, <1>12, <1>i DEF RowsInv, ReadsHold, Saved
  <2> QED
    BY <2>1, <2>2
<1>13. (Inserts(m) /\ IsNew(m) /\ MayLink(m))'
  BY <1>3, <1>4, <1>i DEF Inserts, IsNew, MayLink
<1>14. ReadsHold(m)'
  BY <1>3, <1>4, <1>11, TailReads
<1> QED
  BY <1>6, <1>7, <1>8, <1>9, <1>10, <1>12, <1>13, <1>14 DEF RowsInv

LEMMA KeyTakenRows ==
    ASSUME Types, RowsInv, NEW m \in Makers, KeyTaken(m)
    PROVE  RowsInv'
<1>i. Ids' = Ids
  BY DEF Ids
<1>1. /\ maker[m].pc = "insert" /\ maker[m].todo # << >> /\ maker[m].id \in Ids
      /\ hotelRow[maker[m].id] = m /\ listing[maker[m].id].by = "none"
  BY DEF KeyTaken, RowsInv, Inserts
<1>2. PICK h \in Ids : h = maker[m].id
  BY <1>1
<1>3. Of(m, Head(maker[m].todo)) \in SUBSET Ids /\ Of(m, Head(maker[m].todo)) # {}
  BY DEF KeyTaken, Of, Visible
<1>4. PICK j \in Ids : j = OneOf(Of(m, Head(maker[m].todo))) /\ j \in Of(m, Head(maker[m].todo))
  BY <1>3, OneOfIn
<1>5. listing[j].by \in {"saved", m}
  BY <1>4 DEF Of, Visible
<1>6. j # h /\ hotelRow[j] \in {"saved", m}
  BY <1>1, <1>2, <1>5, Names
<1>7. j \in 0..MaxHotels
  BY Bounds DEF Ids
<1>8. maker' = Pop(m, j)
  BY <1>4 DEF KeyTaken
<1>9. /\ maker'[m].todo = Tail(maker[m].todo) /\ maker'[m].pc = "make" /\ maker'[m].id = j
      /\ maker'[m].known = maker[m].known /\ \A n \in Makers : n # m => maker'[n] = maker[n]
  BY <1>1, <1>7, <1>8, PopIs, Shapes
<1>10. /\ hotelRow'[h] = "none" /\ \A i \in Ids : i # h => hotelRow'[i] = hotelRow[i]
       /\ UNCHANGED <<listing, watch>>
  BY <1>2, Shapes DEF KeyTaken, HotelUndone
<1>11. OwnRows'
  BY <1>1, <1>2, <1>9, <1>10, <1>i, Bounds DEF RowsInv, OwnRows
<1>12. BlankOrWhole' /\ OneKeyEach'
  BY <1>10, <1>i DEF RowsInv, BlankOrWhole, OneKeyEach, NoListing
<1>13. AtWork'
  BY <1>9, <1>10, <1>i, Bounds DEF RowsInv, AtWork
<1>14. Watched'
  <2>1. \A x \in watch : x[2] \in Ids
    BY Shapes
  <2>2. \A x \in watch : hotelRow[x[2]] = "saved" /\ x[2] # h
    BY <1>1, <1>2, Bounds DEF RowsInv, Watched
  <2> QED
    BY <1>10, <2>1, <2>2 DEF Watched
<1>15. ASSUME NEW n \in Makers, n # m PROVE (Inserts(n) /\ IsNew(n) /\ MayLink(n) /\ ReadsHold(n))'
  BY <1>1, <1>2, <1>9, <1>10, <1>15, <1>i, Bounds DEF RowsInv, Inserts, IsNew, MayLink, ReadsHold, Saved
<1>16. (Inserts(m) /\ IsNew(m) /\ MayLink(m))'
  BY <1>6, <1>9, <1>10, <1>i DEF Inserts, IsNew, MayLink
<1>17. ReadsHold(m)'
  BY <1>1, <1>9, <1>10, TailReads DEF Saved
<1> QED
  BY <1>11, <1>12, <1>13, <1>14, <1>15, <1>16, <1>17 DEF RowsInv

\* A maker is back at rest, and none of its rows is open any more.
LEMMA MakerRests ==
    ASSUME Types, RowsInv, NEW m \in Makers, maker' = [maker EXCEPT ![m] = AtRest],
           \A i \in Ids : hotelRow[i] = m => hotelRow'[i] \in {"none", "saved"},
           \A i \in Ids : hotelRow[i] # m => hotelRow'[i] = hotelRow[i],
           \A i \in Ids : listing[i].by # m => listing'[i] = listing[i],
           \A i \in Ids : listing[i].by = m => listing'[i].by = hotelRow'[i],
           \A i \in Ids : hotelRow[i] = m /\ listing[i].by # m => hotelRow'[i] = "none",
           BlankOrWhole', OneKeyEach', Watched'
    PROVE  RowsInv'
<1>i. Ids' = Ids
  BY DEF Ids
<1>1. /\ maker'[m].pc = "rest" /\ maker'[m].todo = << >> /\ maker'[m].known = << >>
      /\ \A n \in Makers : n # m => maker'[n] = maker[n]
  BY RestIs, Shapes
<1>2. OwnRows'
  <2>1. ASSUME NEW i \in Ids PROVE \/ listing'[i].by = hotelRow'[i]
                                   \/ /\ listing'[i].by = "none" /\ hotelRow'[i] \in Makers
                                      /\ maker'[hotelRow'[i]].pc = "insert" /\ maker'[hotelRow'[i]].id = i
    <3>1. CASE listing[i].by = m
      BY <3>1
    <3>2. CASE listing[i].by # m /\ hotelRow[i] = m
      BY <3>2, Names
    <3>3. CASE listing[i].by # m /\ hotelRow[i] # m
      BY <1>1, <3>3 DEF RowsInv, OwnRows
    <3> QED
      BY <3>1, <3>2, <3>3
  <2> QED
    BY <1>i, <2>1 DEF OwnRows
<1>3. AtWork'
  BY <1>1, <1>i, Bounds DEF RowsInv, AtWork
<1>4. \A i \in Ids : Saved(i) => listing'[i].by = "saved"
  BY Bounds DEF Saved
<1>5. ASSUME NEW n \in Makers, n # m PROVE (Inserts(n) /\ IsNew(n) /\ MayLink(n) /\ ReadsHold(n))'
  <2>1. \A i \in Ids : hotelRow[i] = n \/ hotelRow[i] = "saved" =>
            hotelRow'[i] = hotelRow[i] /\ (listing[i].by # m)
    BY <1>5, Names, Bounds
  <2>2. (Inserts(n) /\ IsNew(n) /\ MayLink(n))'
    BY <1>1, <1>5, <1>i, <2>1 DEF RowsInv, Inserts, IsNew, MayLink
  <2>3. ReadsHold(n)'
    BY <1>1, <1>4, <1>5, <1>i DEF RowsInv, ReadsHold, Saved
  <2> QED
    BY <2>2, <2>3
<1>6. (Inserts(m) /\ IsNew(m) /\ MayLink(m))'
  BY <1>1 DEF Inserts, IsNew, MayLink
<1>7. ReadsHold(m)'
  <2>1. DOMAIN << >> = {}
    OBVIOUS
  <2> QED
    BY <1>1, <2>1 DEF ReadsHold
<1> QED
  BY <1>2, <1>3, <1>5, <1>6, <1>7 DEF RowsInv

LEMMA CommitRows ==
    ASSUME Types, RowsInv, NEW m \in Makers, CommitMaker(m)
    PROVE  RowsInv'
<1>i. Ids' = Ids
  BY DEF Ids
<1>1. \A i \in Ids : hotelRow'[i] = IF hotelRow[i] = m THEN "saved" ELSE hotelRow[i]
  BY DEF CommitMaker
<1>2. ASSUME NEW i \in Ids
      PROVE  /\ listing'[i].by = IF listing[i].by = m THEN "saved" ELSE listing[i].by
             /\ listing'[i].key = listing[i].key
             /\ listing[i].by # m => listing'[i] = listing[i]
  <2>1. listing'[i] = [listing[i] EXCEPT !.by = IF listing[i].by = m THEN "saved" ELSE listing[i].by]
    BY DEF CommitMaker
  <2>2. listing[i] \in Entries
    BY Shapes
  <2> QED
    BY <2>1, <2>2 DEF Entries
<1>3. \A i \in Ids : hotelRow[i] = m => listing[i].by = m
  <2>1. maker[m].pc # "insert"
    BY DEF CommitMaker
  <2> QED
    BY <2>1 DEF RowsInv, OwnRows
<1>4. BlankOrWhole'
  BY <1>2, <1>i, Bounds DEF RowsInv, BlankOrWhole, NoListing
<1>5. OneKeyEach'
  BY <1>2, <1>i, Bounds DEF RowsInv, OneKeyEach
<1>6. Watched'
  <2>1. \/ watch' = watch
        \/ watch' = watch \cup {<<maker[m].tenant, maker[m].id>>} /\ maker[m].tenant # "none"
    BY DEF CommitMaker
  <2>2. \A x \in watch : hotelRow'[x[2]] = "saved"
    BY <1>1, Shapes DEF RowsInv, Watched
  <2>3. maker[m].tenant # "none" => hotelRow'[maker[m].id] = "saved"
    BY <1>1 DEF RowsInv, MayLink, CommitMaker
  <2> QED
    BY <2>1, <2>2, <2>3 DEF Watched
<1>7. \A i \in Ids : hotelRow[i] = m => hotelRow'[i] \in {"none", "saved"}
  BY <1>1
<1>8. \A i \in Ids : listing[i].by = m => hotelRow[i] = m
  BY Names, Bounds
<1>9. maker' = [maker EXCEPT ![m] = AtRest]
  BY DEF CommitMaker
<1>10. \A i \in Ids : hotelRow[i] # m => hotelRow'[i] = hotelRow[i]
  BY <1>1
<1>11. \A i \in Ids : listing[i].by # m => listing'[i] = listing[i]
  BY <1>2
<1>12. \A i \in Ids : listing[i].by = m => listing'[i].by = hotelRow'[i]
  BY <1>1, <1>2, <1>8
<1>13. \A i \in Ids : hotelRow[i] = m /\ listing[i].by # m => hotelRow'[i] = "none"
  BY <1>3
<1> QED
  BY <1>4, <1>5, <1>6, <1>7, <1>9, <1>10, <1>11, <1>12, <1>13, MakerRests

LEMMA AbortRows ==
    ASSUME Types, RowsInv, NEW m \in Makers, MakerAborts(m)
    PROVE  RowsInv'
<1>i. Ids' = Ids
  BY DEF Ids
<1>1. \A i \in Ids : /\ hotelRow'[i] = IF hotelRow[i] = m THEN "none" ELSE hotelRow[i]
                     /\ listing'[i] = IF listing[i].by = m THEN NoListing ELSE listing[i]
  BY DEF MakerAborts
<1>2. BlankOrWhole'
  BY <1>1, <1>i, BlankIs DEF RowsInv, BlankOrWhole, NoListing
<1>3. OneKeyEach'
  <2>1. ASSUME NEW i \in Ids, NEW j \in Ids, listing'[i].key = listing'[j].key, i # j
        PROVE  listing'[i].by = "none"
    <3>1. CASE listing[i].by = m
      BY <1>1, <3>1, BlankIs
    <3>2. CASE listing[i].by # m /\ listing[j].by = m
      BY <1>1, <2>1, <3>2, BlankIs, Names
    <3>3. CASE listing[i].by # m /\ listing[j].by # m
      BY <1>1, <2>1, <3>3 DEF RowsInv, OneKeyEach
    <3> QED
      BY <3>1, <3>2, <3>3
  <2> QED
    BY <1>i, <2>1 DEF OneKeyEach
<1>4. Watched'
  <2>1. UNCHANGED watch
    BY DEF MakerAborts
  <2> QED
    BY <1>1, <2>1, Shapes, Bounds DEF RowsInv, Watched
<1>5. \A i \in Ids : hotelRow[i] = m => hotelRow'[i] \in {"none", "saved"}
  BY <1>1
<1>6. \A i \in Ids : listing[i].by = m => hotelRow[i] = m /\ listing'[i].by = "none"
  BY <1>1, Names, BlankIs, Bounds
<1>7. maker' = [maker EXCEPT ![m] = AtRest]
  BY DEF MakerAborts
<1>8. \A i \in Ids : hotelRow[i] # m => hotelRow'[i] = hotelRow[i]
  BY <1>1
<1>9. \A i \in Ids : listing[i].by # m => listing'[i] = listing[i]
  BY <1>1
<1>10. \A i \in Ids : listing[i].by = m => listing'[i].by = hotelRow'[i]
  BY <1>1, <1>6
<1>11. \A i \in Ids : hotelRow[i] = m /\ listing[i].by # m => hotelRow'[i] = "none"
  BY <1>1
<1> QED
  BY <1>2, <1>3, <1>4, <1>5, <1>7, <1>8, <1>9, <1>10, <1>11, MakerRests

LEMMA MakerRows ==
    ASSUME Types, RowsInv, Types', NEW m \in Makers,
           \/ MakerStep(m) \/ MakerAborts(m)
           \/ \E p \in Pages : StartPage(m, p)
           \/ \E t \in Tenants, k \in Keys : StartAdd(m, t, k)
    PROVE  RowsInv'
BY StartRows, UseRows, InsertHotelRows, InsertListingRows, KeyTakenRows, CommitRows, AbortRows DEF MakerStep

-----------------------------------------------------------------------------
(* The queue of verifications.                                               *)

LEMMA BusyIs ==
    ASSUME NEW i
    PROVE  /\ IsFiniteSet(Busy(i)) /\ Cardinality(Busy(i)) \in Nat
           /\ Cardinality(Busy(i)) <= Cardinality(Verifiers)
<1>1. Busy(i) \in SUBSET Verifiers
  BY DEF Busy
<1>2. IsFiniteSet(Busy(i)) /\ Cardinality(Busy(i)) <= Cardinality(Verifiers)
  BY <1>1, Bounds, FS_Subset
<1> QED
  BY <1>2, FS_CardinalityType

\* A job is pushed where there is room.
LEMMA PushLoads ==
    ASSUME Types, ChecksInv, NEW i \in Ids, UNCHANGED verifier,
           PushVerifyOrLose(i) \/ UNCHANGED queued
    PROVE  /\ Load'
           /\ \A j \in Ids : queued'[j] > 0 => j = i \/ queued[j] > 0
<1>0. Ids' = Ids /\ queued \in [Ids -> Nat] /\ \A j \in Ids : Busy(j)' = Busy(j)
  BY Shapes DEF Busy, Ids
<1>1. CASE PushVerify(i)
  <2>1. /\ queued[i] < MaxQueued /\ queued'[i] = queued[i] + 1
        /\ \A j \in Ids : j # i => queued'[j] = queued[j]
    BY <1>0, <1>1 DEF PushVerify
  <2>2. ASSUME NEW j \in Ids
        PROVE  queued'[j] + Cardinality(Busy(j)) <= MaxQueued + Cardinality(Verifiers)
    <3>1. Cardinality(Busy(j)) \in Nat /\ Cardinality(Busy(j)) <= Cardinality(Verifiers)
      BY BusyIs
    <3>2. CASE j = i
      BY <1>0, <2>1, <3>1, <3>2, Bounds
    <3>3. CASE j # i
      BY <2>1, <3>3 DEF ChecksInv, Load
    <3> QED
      BY <3>2, <3>3
  <2> QED
    BY <1>0, <2>1, <2>2 DEF Load
<1>2. CASE UNCHANGED queued
  BY <1>0, <1>2 DEF ChecksInv, Load
<1> QED
  BY <1>1, <1>2 DEF PushVerifyOrLose

\* A job is taken, or given back by a verifier that has it, or over.
LEMMA TakeLoads ==
    ASSUME Types, ChecksInv, NEW v \in Verifiers, NEW i \in Ids, queued[i] > 0, verifier[v].id \notin Ids,
           queued' = [queued EXCEPT ![i] = @ - 1],
           verifier'[v].id = i, \A w \in Verifiers : w # v => verifier'[w] = verifier[w]
    PROVE  Load'
<1>0. Ids' = Ids /\ queued \in [Ids -> Nat]
  BY Shapes DEF Ids
<1>1. ASSUME NEW j \in Ids
      PROVE  queued'[j] + Cardinality(Busy(j)') <= MaxQueued + Cardinality(Verifiers)
  <2>0. IsFiniteSet(Busy(j)) /\ Cardinality(Busy(j)) \in Nat
    BY BusyIs
  <2>1. queued[j] + Cardinality(Busy(j)) <= MaxQueued + Cardinality(Verifiers)
    BY DEF ChecksInv, Load
  <2>2. CASE j = i
    <3>1. Busy(j)' = Busy(j) \cup {v} /\ v \notin Busy(j)
      BY <2>2 DEF Busy
    <3>2. Cardinality(Busy(j) \cup {v}) = Cardinality(Busy(j)) + 1
      BY <2>0, <3>1, FS_AddElement
    <3>3. queued'[j] = queued[j] - 1 /\ queued[j] \in Nat
      BY <1>0, <2>2
    <3> QED
      BY <2>0, <2>1, <3>1, <3>2, <3>3, Bounds
  <2>3. CASE j # i
    <3>1. Busy(j)' = Busy(j)
      BY <2>3 DEF Busy
    <3> QED
      BY <1>0, <2>1, <2>3, <3>1
  <2> QED
    BY <2>2, <2>3
<1> QED
  BY <1>0, <1>1 DEF Load

LEMMA EndLoads ==
    ASSUME Types, ChecksInv, NEW v \in Verifiers, verifier[v].id \in Ids, VerifyEnds(v),
           \/ queued' = [queued EXCEPT ![verifier[v].id] = @ + 1]
           \/ UNCHANGED queued
    PROVE  Load'
<1>0. Ids' = Ids /\ queued \in [Ids -> Nat] /\ 0 \notin Ids
  BY Shapes, Bounds DEF Ids
<1>v. /\ verifier'[v].id = 0 /\ \A w \in Verifiers : w # v => verifier'[w] = verifier[w]
  BY IdleIs, Shapes DEF VerifyEnds
<1>1. ASSUME NEW j \in Ids
      PROVE  queued'[j] + Cardinality(Busy(j)') <= MaxQueued + Cardinality(Verifiers)
  <2>0. IsFiniteSet(Busy(j)) /\ Cardinality(Busy(j)) \in Nat
    BY BusyIs
  <2>1. queued[j] + Cardinality(Busy(j)) <= MaxQueued + Cardinality(Verifiers)
    BY DEF ChecksInv, Load
  <2>2. CASE j = verifier[v].id
    <3>1. Busy(j)' = Busy(j) \ {v} /\ v \in Busy(j)
      BY <1>0, <1>v, <2>2 DEF Busy
    <3>2. Cardinality(Busy(j) \ {v}) = Cardinality(Busy(j)) - 1
      BY <2>0, <3>1, FS_RemoveElement
    <3>3. queued'[j] \in {queued[j], queued[j] + 1} /\ queued[j] \in Nat
      BY <1>0, <2>2
    <3> QED
      BY <2>0, <2>1, <3>1, <3>2, <3>3, Bounds
  <2>3. CASE j # verifier[v].id
    <3>1. Busy(j)' = Busy(j)
      BY <1>0, <1>v, <2>3 DEF Busy
    <3> QED
      BY <1>0, <2>1, <2>3, <3>1
  <2> QED
    BY <2>2, <2>3
<1> QED
  BY <1>0, <1>1 DEF Load

LEMMA SameLoad ==
    ASSUME ChecksInv, UNCHANGED queued, \A w \in Verifiers : verifier'[w].id = verifier[w].id
    PROVE  Load'
<1>0. Ids' = Ids /\ \A j \in Ids : Busy(j)' = Busy(j)
  BY DEF Busy, Ids
<1> QED
  BY <1>0 DEF ChecksInv, Load

-----------------------------------------------------------------------------
(* What jobs and changes under way know of their listings.                   *)

\* What a step may do to a listing: under a job it keeps its URL, unless the
\* step moves it, and an identity it has; without one it gets no identity and
\* does not become active.
Quiet(j) ==
    Saved(j) =>
        /\ listing'[j].by = "saved"
        /\ UnderWay(j) /\ j \notin moved' =>
               /\ listing'[j].key = listing[j].key
               /\ listing[j].ext # "none" => listing'[j].ext = listing[j].ext
        /\ ~ UnderWay(j) => /\ listing[j].ext = "none" => listing'[j].ext = "none"
                            /\ listing[j].status # "active" => listing'[j].status # "active"

LEMMA Kept ==
    ASSUME ChecksInv, moved \subseteq moved', \A j \in Ids : Quiet(j)
    PROVE  /\ \A v \in Verifiers : verifier'[v] = verifier[v] => ChecksUrl(v)'
           /\ \A x \in Scanners : scanner'[x] = scanner[x] => ScanUrl(x)'
<1>i. Ids' = Ids
  BY DEF Ids
<1>1. ASSUME NEW v \in Verifiers, verifier'[v] = verifier[v] PROVE ChecksUrl(v)'
  <2>1. ChecksUrl(v)
    BY DEF ChecksInv
  <2>2. CASE verifier[v].pc = "idle"
    BY <1>1, <2>1, <2>2 DEF ChecksUrl
  <2>3. CASE verifier[v].pc # "idle"
    <3>1. PICK i \in Ids : i = verifier[v].id
      BY <2>1, <2>3 DEF ChecksUrl
    <3>2. UnderWay(i) /\ Quiet(i)
      BY <3>1 DEF UnderWay
    <3>3. Saved(i) /\ listing'[i].by = "saved"
      BY <2>1, <2>3, <3>1, <3>2 DEF ChecksUrl, Quiet
    <3>4. i \notin moved' => /\ listing'[i].key = verifier[v].key
                             /\ verifier[v].ext = "none" \/ listing'[i].ext = verifier[v].ext
      BY <2>1, <2>3, <3>1, <3>2, <3>3 DEF ChecksUrl, Quiet
    <3>5. verifier[v].key \in Keys /\ verifier[v].page \in ToldBy(verifier[v].key)
      BY <2>1, <2>3 DEF ChecksUrl
    <3> QED
      BY <1>1, <1>i, <2>3, <3>1, <3>3, <3>4, <3>5 DEF ChecksUrl, Saved, ToldBy
  <2> QED
    BY <2>2, <2>3
<1>2. ASSUME NEW x \in Scanners, scanner'[x] = scanner[x] PROVE ScanUrl(x)'
  <2>1. ScanUrl(x)
    BY DEF ChecksInv
  <2>2. CASE scanner[x].id = 0
    BY <1>2, <2>2 DEF ScanUrl
  <2>3. CASE scanner[x].id # 0
    <3>1. PICK i \in Ids : i = scanner[x].id
      BY <2>1, <2>3 DEF ScanUrl
    <3>2. UnderWay(i) /\ Quiet(i)
      BY <3>1 DEF UnderWay
    <3>3. Saved(i) /\ scanner[x].key \in Keys /\ (i \notin moved => listing[i].key = scanner[x].key)
      BY <2>1, <2>3, <3>1 DEF ScanUrl
    <3>4. listing'[i].by = "saved" /\ (i \notin moved' => listing'[i].key = scanner[x].key)
      BY <3>2, <3>3 DEF Quiet
    <3> QED
      BY <1>2, <1>i, <3>1, <3>3, <3>4 DEF ScanUrl, Saved
  <2> QED
    BY <2>2, <2>3
<1> QED
  BY <1>1, <1>2

\* A change of a URL that no new job overlaps with.
LEMMA ChangesKept ==
    ASSUME ChecksInv, \A j \in Ids : Quiet(j), NEW t \in Tenants,
           change'[t].id = change[t].id, change'[t].key = change[t].key, change'[t].was = change[t].was,
           change[t].over => change'[t].over,
           change[t].id \in Ids /\ ~ change'[t].over /\ ~ UnderWay(change[t].id) => ~ UnderWay(change[t].id)'
    PROVE  ChangeRead(t)'
<1>i. Ids' = Ids
  BY DEF Ids
<1>1. ChangeRead(t)
  BY DEF ChecksInv
<1>2. CASE change[t].id = 0
  BY <1>2 DEF ChangeRead
<1>3. CASE change[t].id # 0
  <2>1. PICK i \in Ids : i = change[t].id
    BY <1>1, <1>3 DEF ChangeRead
  <2>2. Saved(i) /\ change[t].key \in Keys
    BY <1>1, <1>3, <2>1 DEF ChangeRead
  <2>3. Quiet(i)
    OBVIOUS
  <2>4. listing'[i].by = "saved"
    BY <2>2, <2>3 DEF Quiet
  <2>5. ASSUME ~ change'[t].over
        PROVE  /\ ~ UnderWay(i)'
               /\ change[t].was.ext = "none" => listing'[i].ext = "none"
               /\ change[t].was.status = "unverified" => listing'[i].status # "active"
    <3>1. /\ ~ UnderWay(i) /\ (change[t].was.ext = "none" => listing[i].ext = "none")
          /\ change[t].was.status = "unverified" => listing[i].status # "active"
      BY <1>1, <1>3, <2>1, <2>5 DEF ChangeRead
    <3>2. ~ UnderWay(i)'
      BY <2>1, <2>5, <3>1
    <3> QED
      BY <2>2, <2>3, <3>1, <3>2 DEF Quiet
  <2> QED
    BY <1>i, <2>1, <2>2, <2>4, <2>5 DEF ChangeRead, Saved
<1> QED
  BY <1>2, <1>3

\* A listing that is not "moved" keeps what it has, gets its own identity, or
\* has none and is not active, or shows none.
LEMMA IdentitiesKept ==
    ASSUME ChecksInv, moved \subseteq moved',
           \A j \in Ids \ moved' :
              \/ /\ listing'[j].key = listing[j].key /\ listing'[j].ext = listing[j].ext
                 /\ listing'[j].status = "active" => listing[j].status = "active"
                 /\ j \in bare => j \in bare'
              \/ /\ listing'[j].key = listing[j].key /\ listing'[j].ext = listing[j].ext
                 /\ j \in bare'
              \/ listing'[j].ext = IdentityOf[listing'[j].key]
              \/ /\ listing'[j].ext = "none"
                 /\ listing'[j].status # "active" \/ listing'[j].key \in Badged
    PROVE  OwnIdentity' /\ ActiveIsVerified'
<1>i. Ids' = Ids
  BY DEF Ids
<1>1. ASSUME NEW j \in Ids \ moved'
      PROVE  /\ listing'[j].ext = "none" \/ listing'[j].ext = IdentityOf[listing'[j].key]
             /\ listing'[j].status = "active" =>
                    \/ listing'[j].ext = IdentityOf[listing'[j].key]
                    \/ listing'[j].ext = "none" /\ (listing'[j].key \in Badged \/ j \in bare')
  <2>1. j \in Ids \ moved
    OBVIOUS
  <2>2. /\ listing[j].ext = "none" \/ listing[j].ext = IdentityOf[listing[j].key]
        /\ listing[j].status = "active" =>
               \/ listing[j].ext = IdentityOf[listing[j].key]
               \/ listing[j].ext = "none" /\ (listing[j].key \in Badged \/ j \in bare)
    BY <2>1 DEF ChecksInv, OwnIdentity, ActiveIsVerified
  <2> QED
    BY <2>2
<1> QED
  BY <1>i, <1>1 DEF OwnIdentity, ActiveIsVerified

\* A step that begins no job and no change, and ends none but its own.
LEMMA SameJobs ==
    ASSUME ChecksInv, UNCHANGED change, \A j \in Ids : Quiet(j),
           \A v \in Verifiers : verifier'[v] = verifier[v] \/ verifier'[v].id \in {0, verifier[v].id},
           \A x \in Scanners : scanner'[x] = scanner[x] \/ scanner'[x].id = 0
    PROVE  \A t \in Tenants : ChangeRead(t)'
<1>1. 0 \notin Ids
  BY Bounds DEF Ids
<1>2. \A i \in Ids : ~ UnderWay(i) => ~ UnderWay(i)'
  BY <1>1 DEF UnderWay
<1> QED
  BY <1>2, ChangesKept

\* Transactions leave saved listings as they are, and their own rows carry
\* the identity of the card.
LEMMA MakersKeepChecks ==
    ASSUME ChecksInv, UNCHANGED <<verifier, scanner, change, moved, bare>>, QueuedIsSaved', Load',
           \A i \in Ids : Saved(i) => listing'[i] = listing[i],
           \A i \in Ids : \/ /\ listing'[i].key = listing[i].key /\ listing'[i].ext = listing[i].ext
                             /\ listing'[i].status = listing[i].status
                          \/ listing'[i].status # "active" /\ listing'[i].ext = "none"
                          \/ listing'[i].ext = CardId(listing'[i].key)
    PROVE  ChecksInv'
<1>q. \A j \in Ids : Quiet(j)
  BY DEF Quiet, Saved
<1>1. OwnIdentity' /\ ActiveIsVerified'
  BY IdentitiesKept DEF CardId
<1>2. (\A v \in Verifiers : ChecksUrl(v)') /\ (\A x \in Scanners : ScanUrl(x)')
  BY <1>q, Kept
<1>3. \A t \in Tenants : ChangeRead(t)'
  BY <1>q, SameJobs
<1> QED
  BY <1>1, <1>2, <1>3 DEF ChecksInv

LEMMA MakerChecks ==
    ASSUME Types, RowsInv, ChecksInv, NEW m \in Makers,
           \/ MakerStep(m) \/ MakerAborts(m)
           \/ \E p \in Pages : StartPage(m, p)
           \/ \E t \in Tenants, k \in Keys : StartAdd(m, t, k)
    PROVE  ChecksInv'
<1>i. Ids' = Ids
  BY DEF Ids
<1>0. ASSUME UNCHANGED <<verifier, queued>>,
             \A i \in Ids : Saved(i) => listing'[i] = listing[i]
      PROVE  QueuedIsSaved' /\ Load'
  BY <1>0, <1>i, SameLoad DEF ChecksInv, QueuedIsSaved, Saved
<1>1. ASSUME UNCHANGED <<jobVars, listing>> PROVE ChecksInv'
  <2>1. UNCHANGED <<queued, verifier, scanner, change, moved, bare, listing>>
    BY <1>1 DEF jobVars
  <2>2. QueuedIsSaved' /\ Load'
    BY <1>0, <2>1
  <2> QED
    BY <2>1, <2>2, MakersKeepChecks
<1>2. ASSUME NEW p \in Pages, StartPage(m, p) PROVE ChecksInv'
  BY <1>1, <1>2 DEF StartPage
<1>3. ASSUME NEW t \in Tenants, NEW k \in Keys, StartAdd(m, t, k) PROVE ChecksInv'
  BY <1>1, <1>3 DEF StartAdd
<1>4. CASE UseKnown(m)
  BY <1>1, <1>4 DEF UseKnown
<1>5. CASE InsertHotel(m)
  BY <1>1, <1>5 DEF InsertHotel
<1>6. CASE KeyTaken(m)
  BY <1>1, <1>6 DEF KeyTaken
<1>7. CASE InsertListing(m)
  <2>1. PICK h \in Ids : h = maker[m].id
    BY <1>7, InsertListingIs
  <2>2. /\ listing[h].by = "none" /\ \A j \in Ids : j # h => listing'[j] = listing[j]
        /\ \/ listing'[h].status # "active" /\ listing'[h].ext = "none"
           \/ listing'[h].ext = CardId(listing'[h].key)
        /\ UNCHANGED <<verifier, moved, queued, scanner, change, bare>>
    BY <1>7, <2>1, InsertListingIs
  <2>3. \A i \in Ids : Saved(i) => listing'[i] = listing[i]
    BY <2>2 DEF Saved
  <2>4. QueuedIsSaved' /\ Load'
    BY <1>0, <2>2, <2>3
  <2> QED
    BY <2>2, <2>3, <2>4, MakersKeepChecks
<1>8. CASE MakerAborts(m)
  <2>1. \A i \in Ids : listing'[i] = IF listing[i].by = m THEN NoListing ELSE listing[i]
    BY <1>8 DEF MakerAborts
  <2>2. \A i \in Ids : Saved(i) => listing'[i] = listing[i]
    BY <2>1, Bounds DEF Saved
  <2>3. UNCHANGED <<verifier, moved, queued, scanner, change, bare>>
    BY <1>8 DEF MakerAborts, jobVars
  <2>4. QueuedIsSaved' /\ Load'
    BY <1>0, <2>2, <2>3
  <2>5. NoListing.status # "active" /\ NoListing.ext = "none"
    BY DEF NoListing
  <2> QED
    BY <2>1, <2>2, <2>3, <2>4, <2>5, MakersKeepChecks
<1>9. CASE CommitMaker(m)
  <2>1. ASSUME NEW i \in Ids
        PROVE  /\ listing'[i].by = IF listing[i].by = m THEN "saved" ELSE listing[i].by
               /\ listing'[i].key = listing[i].key /\ listing'[i].ext = listing[i].ext
               /\ listing'[i].status = listing[i].status
               /\ listing[i].by # m => listing'[i] = listing[i]
    <3>1. listing'[i] = [listing[i] EXCEPT !.by = IF listing[i].by = m THEN "saved" ELSE listing[i].by]
      BY <1>9 DEF CommitMaker
    <3>2. listing[i] \in Entries
      BY Shapes
    <3> QED
      BY <3>1, <3>2 DEF Entries
  <2>2. \A i \in Ids : Saved(i) => listing'[i] = listing[i]
    BY <2>1, Bounds DEF Saved
  <2>3. UNCHANGED <<verifier, moved, scanner, change, bare>>
    BY <1>9 DEF CommitMaker
  <2>4. QueuedIsSaved' /\ Load'
    <3>1. CASE maker[m].pc = "new"
      <4>1. PICK h \in Ids : h = maker[m].id /\ listing[h].by = m
        BY <3>1 DEF RowsInv, IsNew
      <4>2. PushVerifyOrLose(h)
        BY <1>9, <3>1, <4>1 DEF CommitMaker
      <4>3. Load' /\ \A j \in Ids : queued'[j] > 0 => j = h \/ queued[j] > 0
        BY <2>3, <4>2, PushLoads
      <4>4. listing'[h].by = "saved"
        BY <2>1, <4>1
      <4> QED
        BY <1>i, <2>2, <4>3, <4>4 DEF ChecksInv, QueuedIsSaved, Saved
    <3>2. CASE maker[m].pc # "new"
      <4>1. UNCHANGED queued
        BY <1>9, <3>2 DEF CommitMaker
      <4> QED
        BY <1>0, <2>2, <2>3, <4>1
    <3> QED
      BY <3>1, <3>2
  <2> QED
    BY <2>1, <2>2, <2>3, <2>4, MakersKeepChecks
<1> QED
  BY <1>2, <1>3, <1>4, <1>5, <1>6, <1>7, <1>8, <1>9 DEF MakerStep

LEMMA SavedAsQueued ==
    ASSUME ChecksInv, \A i \in Ids : listing'[i].by = listing[i].by,
           \A i \in Ids : queued'[i] > 0 => queued[i] > 0 \/ Saved(i)
    PROVE  QueuedIsSaved'
<1>1. Ids' = Ids
  BY DEF Ids
<1> QED
  BY <1>1 DEF ChecksInv, QueuedIsSaved, Saved

\* The listings stay as they are, or one gets a status that is not "active".
Dimmed ==
    \/ UNCHANGED listing
    \/ \E i \in Ids, s \in Statuses : listing' = [listing EXCEPT ![i].status = s] /\ s # "active"

LEMMA DimmedIs ==
    ASSUME Types, ChecksInv, Dimmed, UNCHANGED <<moved, bare>>
    PROVE  /\ OwnIdentity' /\ ActiveIsVerified' /\ \A j \in Ids : Quiet(j)
           /\ \A j \in Ids : listing'[j].by = listing[j].by
<1>1. ASSUME NEW j \in Ids
      PROVE  /\ listing'[j].by = listing[j].by /\ listing'[j].key = listing[j].key
             /\ listing'[j].ext = listing[j].ext
             /\ listing'[j].status = "active" => listing[j].status = "active"
  <2>1. CASE UNCHANGED listing
    BY <2>1
  <2>2. ASSUME NEW i \in Ids, NEW s \in Statuses, listing' = [listing EXCEPT ![i].status = s], s # "active"
        PROVE  /\ listing'[j].by = listing[j].by /\ listing'[j].key = listing[j].key
               /\ listing'[j].ext = listing[j].ext
               /\ listing'[j].status = "active" => listing[j].status = "active"
    <3>1. listing[j] \in Entries /\ listing \in [Ids -> Entries]
      BY Shapes
    <3>2. listing'[j] = IF j = i THEN [listing[j] EXCEPT !.status = s] ELSE listing[j]
      BY <2>2, <3>1
    <3> QED
      BY <2>2, <3>1, <3>2 DEF Entries
  <2> QED
    BY <2>1, <2>2 DEF Dimmed
<1>2. OwnIdentity' /\ ActiveIsVerified'
  BY <1>1, IdentitiesKept
<1> QED
  BY <1>1, <1>2 DEF Quiet, Saved

LEMMA BrokenDims ==
    ASSUME Types, NEW i \in Ids, listing' = Broken(i)
    PROVE  Dimmed
BY BrokenIs DEF Dimmed

\* A verification that ends: whatever it wrote, the others know what they knew.
LEMMA EndedChecks ==
    ASSUME Types, ChecksInv, NEW v \in Verifiers, VerifyEnds(v), verifier[v].pc # "idle",
           UNCHANGED <<scanner, change, moved>>, OwnIdentity', ActiveIsVerified',
           \A j \in Ids : Quiet(j) /\ listing'[j].by = listing[j].by,
           \/ queued' = [queued EXCEPT ![verifier[v].id] = @ + 1]
           \/ UNCHANGED queued
    PROVE  ChecksInv'
<1>1. verifier[v].id \in Ids /\ Saved(verifier[v].id)
  BY DEF ChecksInv, ChecksUrl
<1>2. /\ verifier'[v].pc = "idle" /\ verifier'[v].id = 0
      /\ \A w \in Verifiers : w # v => verifier'[w] = verifier[w]
  BY IdleIs, Shapes DEF VerifyEnds
<1>3. Load'
  BY <1>1, EndLoads
<1>4. QueuedIsSaved'
  <2>1. \A i \in Ids : queued'[i] > 0 => queued[i] > 0 \/ Saved(i)
    BY <1>1, Shapes
  <2> QED
    BY <2>1, SavedAsQueued
<1>5. \A w \in Verifiers : ChecksUrl(w)'
  <2>1. ChecksUrl(v)'
    BY <1>2 DEF ChecksUrl
  <2> QED
    BY <1>2, <2>1, Kept
<1>6. \A x \in Scanners : ScanUrl(x)'
  BY Kept
<1>7. \A t \in Tenants : ChangeRead(t)'
  BY <1>2, SameJobs
<1> QED
  BY <1>3, <1>4, <1>5, <1>6, <1>7 DEF ChecksInv

\* A verification that goes on with its job.
LEMMA GoesOnChecks ==
    ASSUME Types, ChecksInv, NEW v \in Verifiers, UNCHANGED <<queued, moved, bare, listing, scanner, change>>,
           verifier'[v].id = verifier[v].id, ChecksUrl(v)',
           \A w \in Verifiers : w # v => verifier'[w] = verifier[w]
    PROVE  ChecksInv'
<1>1. Dimmed
  BY DEF Dimmed
<1>2. OwnIdentity' /\ ActiveIsVerified' /\ \A j \in Ids : Quiet(j) /\ listing'[j].by = listing[j].by
  BY <1>1, DimmedIs
<1>3. Load' /\ QueuedIsSaved'
  BY SameLoad, SavedAsQueued
<1>4. (\A w \in Verifiers : ChecksUrl(w)') /\ (\A x \in Scanners : ScanUrl(x)')
  BY <1>2, Kept
<1>5. \A t \in Tenants : ChangeRead(t)'
  BY <1>2, SameJobs
<1> QED
  BY <1>2, <1>3, <1>4, <1>5 DEF ChecksInv

\* A job that begins: the changes under way of its listing are now overlapped.
LEMMA OverlappedChecks ==
    ASSUME Types, ChecksInv, NEW i \in Ids, change' = Overlapped(i), UNCHANGED <<listing, moved, bare>>,
           \A j \in Ids : j # i /\ ~ UnderWay(j) => ~ UnderWay(j)'
    PROVE  /\ OwnIdentity' /\ ActiveIsVerified' /\ \A j \in Ids : Quiet(j)
           /\ \A t \in Tenants : ChangeRead(t)'
<1>1. Dimmed
  BY DEF Dimmed
<1>2. OwnIdentity' /\ ActiveIsVerified' /\ \A j \in Ids : Quiet(j)
  BY <1>1, DimmedIs
<1>3. ASSUME NEW t \in Tenants PROVE ChangeRead(t)'
  <2>1. change[t] \in Changes
    BY Shapes
  <2>2. change'[t] = [change[t] EXCEPT !.over = change[t].over \/ change[t].id = i]
    BY DEF Overlapped
  <2>3. /\ change'[t].id = change[t].id /\ change'[t].key = change[t].key /\ change'[t].was = change[t].was
        /\ change'[t].over <=> (change[t].over \/ change[t].id = i)
    BY <2>1, <2>2 DEF Changes
  <2> QED
    BY <1>2, <2>3, ChangesKept
<1> QED
  BY <1>2, <1>3

LEMMA VerifierChecks ==
    ASSUME Types, RowsInv, ChecksInv, NEW v \in Verifiers, VerifierStep(v) \/ NotFound(v) \/ VerifyFails(v)
    PROVE  ChecksInv'
<1>i. Ids' = Ids /\ 0 \notin Ids
  BY Bounds DEF Ids
<1>d. verifier[v].pc # "idle" =>
          verifier[v].id \in Ids /\ Saved(verifier[v].id) /\ verifier[v].key \in Keys
  BY DEF ChecksInv, ChecksUrl
<1>u. ChecksUrl(v)
  BY DEF ChecksInv
<1>b. ASSUME VerifyEnds(v), verifier[v].pc # "idle", Dimmed, UNCHANGED <<scanner, change, moved, bare>>,
             \/ queued' = [queued EXCEPT ![verifier[v].id] = @ + 1]
             \/ UNCHANGED queued
      PROVE  ChecksInv'
  BY <1>b, DimmedIs, EndedChecks
<1>1. ASSUME NEW i \in Ids, TakeVerify(v, i) PROVE ChecksInv'
  <2>1. PICK k \in Keys \cup {"none"} : k = listing[i].key
    BY Shapes
  <2>2. verifier' = [verifier EXCEPT ![v] = [[[Unoccupied EXCEPT !.pc = "fetch"] EXCEPT !.id = i] EXCEPT !.key = k]]
    BY <1>1, <2>1 DEF TakeVerify
  <2>3. /\ verifier'[v].pc = "fetch" /\ verifier'[v].id = i /\ verifier'[v].key = k
        /\ verifier'[v].page = "none" /\ verifier'[v].ext = "none"
        /\ \A w \in Verifiers : w # v => verifier'[w] = verifier[w]
    BY <2>2, IdleIs, Shapes DEF Errands, Unoccupied
  <2>4. /\ queued[i] > 0 /\ verifier[v].pc = "idle" /\ UNCHANGED <<listing, moved, bare, scanner>>
        /\ queued' = [queued EXCEPT ![i] = @ - 1] /\ change' = Overlapped(i)
    BY <1>1 DEF TakeVerify
  <2>5. Saved(i) /\ k \in Keys
    <3>1. Saved(i)
      BY <2>4 DEF ChecksInv, QueuedIsSaved
    <3> QED
      BY <2>1, <3>1, Names DEF Saved
  <2>6. verifier[v].id \notin Ids
    BY <1>i, <1>u, <2>4 DEF ChecksUrl
  <2>7. Load'
    BY <2>3, <2>4, <2>6, TakeLoads
  <2>8. QueuedIsSaved'
    BY <2>4, SavedAsQueued, Shapes
  <2>9. \A j \in Ids : j # i /\ ~ UnderWay(j) => ~ UnderWay(j)'
    BY <2>3, <2>4 DEF UnderWay
  <2>10. /\ OwnIdentity' /\ ActiveIsVerified' /\ \A j \in Ids : Quiet(j)
         /\ \A t \in Tenants : ChangeRead(t)'
    BY <2>4, <2>9, OverlappedChecks
  <2>11. ChecksUrl(v)'
    BY <1>i, <2>1, <2>3, <2>4, <2>5 DEF ChecksUrl, Saved, ToldBy
  <2>12. (\A w \in Verifiers : ChecksUrl(w)') /\ (\A x \in Scanners : ScanUrl(x)')
    BY <2>3, <2>4, <2>10, <2>11, Kept
  <2> QED
    BY <2>7, <2>8, <2>10, <2>12 DEF ChecksInv
<1>2. CASE NotFound(v)
  <2>1. /\ verifier[v].pc = "fetch" /\ VerifyEnds(v) /\ UNCHANGED <<queued, moved, bare, scanner, change>>
        /\ listing' = Broken(verifier[v].id)
    BY <1>2 DEF NotFound
  <2>2. Dimmed
    BY <1>d, <2>1, BrokenDims
  <2> QED
    BY <1>b, <2>1, <2>2
<1>3. CASE VerifyFails(v)
  <2>1. /\ verifier[v].pc # "idle" /\ VerifyEnds(v) /\ UNCHANGED <<listing, moved, bare, scanner, change>>
        /\ \/ queued' = [queued EXCEPT ![verifier[v].id] = @ + 1]
           \/ UNCHANGED queued
    BY <1>3 DEF VerifyFails
  <2> QED
    BY <1>b, <2>1 DEF Dimmed
<1>4. CASE Fetched(v)
  <2>1. verifier[v].pc = "fetch" /\ UNCHANGED <<queued, moved, bare, scanner, change>>
    BY <1>4 DEF Fetched
  <2>2. PICK e \in ToldBy(verifier[v].key) :
            IF OthersWith(verifier[v].id, e) # {} THEN listing' = Broken(verifier[v].id) /\ VerifyEnds(v)
            ELSE verifier' = [verifier EXCEPT ![v].pc = "read", ![v].page = e] /\ UNCHANGED listing
    BY <1>4 DEF Fetched
  <2>3. CASE listing' = Broken(verifier[v].id) /\ VerifyEnds(v)
    <3>1. Dimmed
      BY <1>d, <2>1, <2>3, BrokenDims
    <3> QED
      BY <1>b, <2>1, <2>3, <3>1
  <2>4. CASE verifier' = [verifier EXCEPT ![v].pc = "read", ![v].page = e] /\ UNCHANGED listing
    <3>1. verifier' = [verifier EXCEPT ![v] = [[verifier[v] EXCEPT !.pc = "read"] EXCEPT !.page = e]]
      BY <2>4, Shapes
    <3>2. /\ verifier'[v].pc = "read" /\ verifier'[v].id = verifier[v].id /\ verifier'[v].key = verifier[v].key
          /\ verifier'[v].page = e /\ verifier'[v].ext = verifier[v].ext
          /\ \A w \in Verifiers : w # v => verifier'[w] = verifier[w]
      BY <3>1, Shapes DEF Errands
    <3>3. ChecksUrl(v)'
      BY <1>i, <1>u, <2>1, <2>4, <3>2 DEF ChecksUrl, Saved, ToldBy
    <3> QED
      BY <2>1, <2>4, <3>2, <3>3, GoesOnChecks
  <2> QED
    BY <2>2, <2>3, <2>4
<1>5. CASE ReadListing(v)
  <2>1. PICK s, e : s = listing[verifier[v].id].status /\ e = listing[verifier[v].id].ext
    OBVIOUS
  <2>2. verifier' = [verifier EXCEPT ![v] = [[[verifier[v] EXCEPT !.pc = "write"] EXCEPT !.ext = e] EXCEPT !.status = s]]
    BY <1>5, <2>1, Shapes DEF ReadListing
  <2>3. /\ verifier'[v].pc = "write" /\ verifier'[v].id = verifier[v].id /\ verifier'[v].key = verifier[v].key
        /\ verifier'[v].page = verifier[v].page /\ verifier'[v].ext = e
        /\ \A w \in Verifiers : w # v => verifier'[w] = verifier[w]
    BY <2>2, Shapes DEF Errands
  <2>4. verifier[v].pc = "read" /\ UNCHANGED <<queued, moved, bare, listing, scanner, change>>
    BY <1>5 DEF ReadListing
  <2>5. ChecksUrl(v)'
    BY <1>i, <1>u, <2>1, <2>3, <2>4 DEF ChecksUrl, Saved, ToldBy
  <2> QED
    BY <2>3, <2>4, <2>5, GoesOnChecks
<1>6. CASE WriteListing(v)
  <2>1. /\ verifier[v].pc = "write" /\ VerifyEnds(v) /\ UNCHANGED <<queued, moved, scanner, change>>
        /\ bare' = IF verifier[v].page = "none" THEN bare \cup {verifier[v].id} ELSE bare
    BY <1>6 DEF WriteListing
  <2>2. PICK i \in Ids : i = verifier[v].id
    BY <1>d, <2>1
  <2>3. PICK s \in Statuses, e \in Exts :
            /\ \/ e = verifier[v].page /\ e # "none"
               \/ e = listing[i].ext /\ (verifier[v].page = "none" \/ verifier[v].page = verifier[v].ext)
            /\ listing' = [listing EXCEPT ![i].ext = e, ![i].status = s]
    <3>1. PICK s \in Statuses, e \in Exts :
              /\ \/ e = verifier[v].page /\ e # "none"
                 \/ e = listing[verifier[v].id].ext /\ (verifier[v].page = "none" \/ verifier[v].page = verifier[v].ext)
              /\ listing' = [listing EXCEPT ![verifier[v].id].ext = e, ![verifier[v].id].status = s]
      BY <1>6, WrittenIs
    <3> QED
      BY <2>2, <3>1
  <2>4. /\ listing'[i].by = listing[i].by /\ listing'[i].key = listing[i].key
        /\ listing'[i].ext = e /\ \A j \in Ids : j # i => listing'[j] = listing[j]
    BY <2>3, Shapes, TwoFields
  <2>5. /\ verifier[v].page \in {IdentityOf[verifier[v].key], "none"}
        /\ i \notin moved => listing[i].key = verifier[v].key
        /\ i \notin moved => verifier[v].ext = "none" \/ listing[i].ext = verifier[v].ext
    BY <1>u, <2>1, <2>2 DEF ChecksUrl, ToldBy
  <2>6. i \notin moved => listing[i].ext = "none" \/ listing[i].ext = IdentityOf[listing[i].key]
    BY DEF ChecksInv, OwnIdentity
  <2>7. i \notin moved => \/ e = IdentityOf[listing[i].key]
                          \/ e = listing[i].ext /\ i \in bare'
    BY <2>1, <2>2, <2>3, <2>5, <2>6
  <2>8. OwnIdentity' /\ ActiveIsVerified'
    BY <2>1, <2>4, <2>7, IdentitiesKept
  <2>9. UnderWay(i)
    BY <2>2 DEF UnderWay
  <2>10. i \notin moved /\ listing[i].ext # "none" => e = listing[i].ext
    BY <2>6, <2>7
  <2>11. ASSUME NEW j \in Ids PROVE Quiet(j) /\ listing'[j].by = listing[j].by
    BY <2>1, <2>4, <2>9, <2>10 DEF Quiet, Saved
  <2> QED
    BY <2>1, <2>8, <2>11, EndedChecks
<1> QED
  BY <1>1, <1>2, <1>3, <1>4, <1>5, <1>6 DEF VerifierStep

LEMMA ScannerChecks ==
    ASSUME Types, RowsInv, ChecksInv, NEW x \in Scanners, ScannerStep(x)
    PROVE  ChecksInv'
<1>i. Ids' = Ids /\ 0 \notin Ids
  BY Bounds DEF Ids
<1>d. scanner[x].id # 0 =>
          /\ scanner[x].id \in Ids /\ Saved(scanner[x].id) /\ scanner[x].key \in Keys
          /\ scanner[x].id \notin moved => listing[scanner[x].id].key = scanner[x].key
  BY DEF ChecksInv, ScanUrl
<1>q. ASSUME UNCHANGED <<queued, verifier>>, \A j \in Ids : listing'[j].by = listing[j].by
      PROVE  Load' /\ QueuedIsSaved'
  BY <1>q, SameLoad, SavedAsQueued
\* The job ends.
<1>e. ASSUME Dimmed, scanner' = [scanner EXCEPT ![x] = NoScan],
             UNCHANGED <<queued, verifier, change, moved, bare>>
      PROVE  ChecksInv'
  <2>1. OwnIdentity' /\ ActiveIsVerified' /\ \A j \in Ids : Quiet(j) /\ listing'[j].by = listing[j].by
    BY <1>e, DimmedIs
  <2>2. scanner'[x].id = 0 /\ \A y \in Scanners : y # x => scanner'[y] = scanner[y]
    BY <1>e, NothingIs, Shapes
  <2>3. \A y \in Scanners : ScanUrl(y)'
    <3>1. ScanUrl(x)'
      BY <2>2 DEF ScanUrl
    <3> QED
      BY <1>e, <2>1, <2>2, <3>1, Kept
  <2>4. \A w \in Verifiers : ChecksUrl(w)'
    BY <1>e, <2>1, Kept
  <2>5. \A t \in Tenants : ChangeRead(t)'
    BY <1>e, <2>1, <2>2, SameJobs
  <2> QED
    BY <1>e, <1>q, <2>1, <2>3, <2>4, <2>5 DEF ChecksInv
<1>1. ASSUME NEW i \in Ids, LoadForScan(x, i) PROVE ChecksInv'
  <2>1. PICK k \in Keys \cup {"none"} : k = listing[i].key
    BY Shapes
  <2>2. /\ Saved(i) /\ scanner' = [scanner EXCEPT ![x] = [id |-> i, key |-> k]]
        /\ change' = Overlapped(i) /\ UNCHANGED <<listing, queued, verifier, moved, bare>>
    BY <1>1, <2>1 DEF LoadForScan
  <2>3. k \in Keys
    BY <2>1, <2>2, Names DEF Saved
  <2>4. scanner'[x].id = i /\ scanner'[x].key = k /\ \A y \in Scanners : y # x => scanner'[y] = scanner[y]
    BY <2>2, Shapes
  <2>5. \A j \in Ids : j # i /\ ~ UnderWay(j) => ~ UnderWay(j)'
    BY <2>2, <2>4 DEF UnderWay
  <2>6. /\ OwnIdentity' /\ ActiveIsVerified' /\ \A j \in Ids : Quiet(j)
        /\ \A t \in Tenants : ChangeRead(t)'
    BY <2>2, <2>5, OverlappedChecks
  <2>7. ScanUrl(x)'
    BY <1>i, <2>1, <2>2, <2>3, <2>4 DEF ScanUrl, Saved
  <2>8. (\A w \in Verifiers : ChecksUrl(w)') /\ (\A y \in Scanners : ScanUrl(y)')
    BY <2>2, <2>4, <2>6, <2>7, Kept
  <2> QED
    BY <1>q, <2>2, <2>6, <2>8 DEF ChecksInv
<1>2. CASE ScanWrites(x)
  <2>1. PICK i \in Ids : i = scanner[x].id /\ Saved(i) /\ (i \notin moved => listing[i].key = scanner[x].key)
    BY <1>2, <1>d DEF ScanWrites
  <2>2. PICK e : e = IdentityOf[scanner[x].key]
    OBVIOUS
  <2>3. /\ listing' = [listing EXCEPT ![i] = [listing[i] EXCEPT !.ext = e]]
        /\ UNCHANGED <<queued, verifier, scanner, change, moved, bare>>
    BY <1>2, <2>1, <2>2, Shapes DEF ScanWrites, jobVars
  <2>4. /\ listing'[i].by = listing[i].by /\ listing'[i].key = listing[i].key
        /\ listing'[i].ext = e /\ listing'[i].status = listing[i].status
        /\ \A j \in Ids : j # i => listing'[j] = listing[j]
    BY <2>3, Shapes DEF Entries
  <2>5. OwnIdentity' /\ ActiveIsVerified'
    BY <2>1, <2>2, <2>3, <2>4, IdentitiesKept
  <2>6. UnderWay(i)
    BY <2>1 DEF UnderWay
  <2>7. i \notin moved /\ listing[i].ext # "none" => e = listing[i].ext
    BY <2>1, <2>2 DEF ChecksInv, OwnIdentity
  <2>8. ASSUME NEW j \in Ids PROVE Quiet(j) /\ listing'[j].by = listing[j].by
    BY <2>3, <2>4, <2>6, <2>7 DEF Quiet, Saved
  <2>9. (\A w \in Verifiers : ChecksUrl(w)') /\ (\A y \in Scanners : ScanUrl(y)')
    BY <2>3, <2>8, Kept
  <2>10. \A t \in Tenants : ChangeRead(t)'
    BY <2>3, <2>8, SameJobs
  <2> QED
    BY <1>q, <2>3, <2>5, <2>8, <2>9, <2>10 DEF ChecksInv
<1>3. CASE ScanEnds(x)
  BY <1>3, <1>e DEF ScanEnds, Dimmed
<1>4. CASE ScanFindsNothing(x)
  <2>1. PICK i \in Ids : i = scanner[x].id
    BY <1>4, <1>d DEF ScanFindsNothing
  <2>2. listing' = [listing EXCEPT ![i].status = "broken"]
    BY <1>4, <2>1 DEF ScanFindsNothing
  <2>3. Dimmed
    BY <2>2 DEF Dimmed, Statuses
  <2> QED
    BY <1>4, <1>e, <2>3 DEF ScanFindsNothing
<1> QED
  BY <1>1, <1>2, <1>3, <1>4 DEF ScannerStep

LEMMA UserChecks ==
    ASSUME Types, RowsInv, ChecksInv, NEW t \in Tenants, NEW i \in Ids, UserStep(t, i)
    PROVE  ChecksInv'
<1>i. Ids' = Ids /\ 0 \notin Ids
  BY Bounds DEF Ids
<1>1. ASSUME Dimmed, Saved(i), PushVerifyOrLose(i) \/ UNCHANGED queued,
             UNCHANGED <<verifier, scanner, change, moved, bare>>
      PROVE  ChecksInv'
  <2>1. OwnIdentity' /\ ActiveIsVerified' /\ \A j \in Ids : Quiet(j) /\ listing'[j].by = listing[j].by
    BY <1>1, DimmedIs
  <2>2. Load' /\ \A j \in Ids : queued'[j] > 0 => j = i \/ queued[j] > 0
    BY <1>1, PushLoads
  <2>3. QueuedIsSaved'
    BY <1>1, <2>1, <2>2, SavedAsQueued
  <2>4. (\A w \in Verifiers : ChecksUrl(w)') /\ (\A x \in Scanners : ScanUrl(x)')
    BY <1>1, <2>1, Kept
  <2>5. \A u \in Tenants : ChangeRead(u)'
    BY <1>1, <2>1, SameJobs
  <2> QED
    BY <2>1, <2>2, <2>3, <2>4, <2>5 DEF ChecksInv
<1>2. CASE PauseListing(t, i)
  <2>1. Dimmed
    BY <1>2 DEF PauseListing, Dimmed, Statuses
  <2> QED
    BY <1>1, <1>2, <2>1 DEF PauseListing, jobVars
<1>3. CASE VerifyAgain(t, i)
  <2>1. Dimmed
    BY <1>3 DEF VerifyAgain, Dimmed, Statuses
  <2> QED
    BY <1>1, <1>3, <2>1 DEF VerifyAgain
\* The jobs go on; the changes of the other tenants, too.
<1>j. ASSUME \A j \in Ids : Quiet(j), UNCHANGED <<verifier, scanner>>, moved \subseteq moved',
             \A u \in Tenants : u # t => change'[u] = change[u]
      PROVE  /\ \A w \in Verifiers : ChecksUrl(w)'
             /\ \A x \in Scanners : ScanUrl(x)'
             /\ \A u \in Tenants : u # t => ChangeRead(u)'
  <2>1. (\A w \in Verifiers : ChecksUrl(w)') /\ (\A x \in Scanners : ScanUrl(x)')
    BY <1>j, Kept
  <2>2. \A j \in Ids : ~ UnderWay(j) => ~ UnderWay(j)'
    BY <1>j DEF UnderWay
  <2>3. \A u \in Tenants : u # t => ChangeRead(u)'
    BY <1>j, <2>2, ChangesKept
  <2> QED
    BY <2>1, <2>3
<1>4. CASE Unwatch(t, i)
  <2>1. UNCHANGED <<listing, queued, verifier, scanner, change, moved, bare>>
    BY <1>4 DEF Unwatch, jobVars
  <2>2. Load' /\ QueuedIsSaved'
    BY <2>1, SameLoad, SavedAsQueued
  <2>3. OwnIdentity' /\ ActiveIsVerified' /\ \A j \in Ids : Quiet(j)
    BY <2>1, DimmedIs DEF Dimmed
  <2>4. (\A w \in Verifiers : ChecksUrl(w)') /\ (\A x \in Scanners : ScanUrl(x)')
    BY <2>1, <2>3, Kept
  <2>5. \A u \in Tenants : ChangeRead(u)'
    BY <2>1, <2>3, SameJobs
  <2> QED
    BY <2>2, <2>3, <2>4, <2>5 DEF ChecksInv
<1>5. ASSUME NEW k \in Keys, StartChange(t, i, k) PROVE ChecksInv'
  <2>1. /\ Saved(i) /\ UNCHANGED <<listing, queued, verifier, scanner, moved, bare>>
        /\ change' = [change EXCEPT ![t] = [id |-> i, key |-> k, was |-> listing[i], over |-> UnderWay(i)]]
    BY <1>5 DEF StartChange
  <2>2. Load' /\ QueuedIsSaved'
    BY <2>1, SameLoad, SavedAsQueued
  <2>3. OwnIdentity' /\ ActiveIsVerified' /\ \A j \in Ids : Quiet(j)
    BY <2>1, DimmedIs DEF Dimmed
  <2>4. /\ change'[t].id = i /\ change'[t].key = k /\ change'[t].was = listing[i]
        /\ change'[t].over = UnderWay(i)
        /\ \A u \in Tenants : u # t => change'[u] = change[u]
    BY <2>1, Shapes
  <2>5. UnderWay(i)' <=> UnderWay(i)
    BY <2>1 DEF UnderWay
  <2>6. ChangeRead(t)'
    BY <1>i, <2>1, <2>4, <2>5 DEF ChangeRead, Saved
  <2> QED
    BY <1>j, <2>1, <2>2, <2>3, <2>4, <2>6 DEF ChecksInv
<1>6. CASE CommitChange(t, i)
  <2>1. /\ i = change[t].id /\ Saved(i) /\ listing'[i].by = listing[i].by
        /\ listing'[i].ext = "none" \/ (listing'[i].ext = listing[i].ext /\ change[t].was.ext = "none")
        /\ \/ listing'[i].status = "unverified"
           \/ listing'[i].status = listing[i].status /\ change[t].was.status = "unverified"
        /\ \A j \in Ids : j # i => listing'[j] = listing[j]
    BY <1>6, ChangedIs
  <2>2. /\ moved' = IF change[t].over THEN moved \cup {i} ELSE moved
        /\ bare' = bare \ {i} /\ change' = [change EXCEPT ![t] = NoChange]
        /\ PushVerifyOrLose(i) /\ UNCHANGED <<verifier, scanner>>
    BY <1>6 DEF CommitChange
  <2>3. ~ change[t].over => /\ ~ UnderWay(i)
                            /\ change[t].was.ext = "none" => listing[i].ext = "none"
                            /\ change[t].was.status = "unverified" => listing[i].status # "active"
    BY <1>i, <2>1 DEF ChecksInv, ChangeRead
  <2>4. ~ change[t].over => listing'[i].ext = "none" /\ listing'[i].status # "active"
    BY <2>1, <2>3
  <2>5. /\ listing[i].ext = "none" => listing'[i].ext = "none"
        /\ listing[i].status # "active" => listing'[i].status # "active"
    BY <2>1
  <2>6. ASSUME NEW j \in Ids PROVE Quiet(j)
    <3>1. CASE j # i
      BY <2>1, <3>1 DEF Quiet, Saved
    <3>2. CASE j = i
      <4>1. UnderWay(i) => i \in moved'
        BY <2>2, <2>3
      <4> QED
        BY <2>1, <2>5, <3>2, <4>1 DEF Quiet, Saved
    <3> QED
      BY <3>1, <3>2
  <2>7. OwnIdentity' /\ ActiveIsVerified'
    <3>1. \A j \in Ids : j # i => (j \in bare => j \in bare')
      BY <2>2
    <3>2. i \in moved' \/ (listing'[i].ext = "none" /\ listing'[i].status # "active")
      BY <2>2, <2>4
    <3>3. moved \subseteq moved'
      BY <2>2
    <3> QED
      BY <2>1, <3>1, <3>2, <3>3, IdentitiesKept
  <2>8. Load' /\ \A j \in Ids : queued'[j] > 0 => j = i \/ queued[j] > 0
    BY <2>2, PushLoads
  <2>9. QueuedIsSaved'
    BY <2>1, <2>8, SavedAsQueued
  <2>10. change'[t].id = 0 /\ \A u \in Tenants : u # t => change'[u] = change[u]
    BY <2>2, NothingIs, Shapes
  <2>11. ChangeRead(t)'
    BY <2>10 DEF ChangeRead
  <2> QED
    BY <1>j, <2>2, <2>6, <2>7, <2>8, <2>9, <2>10, <2>11 DEF ChecksInv
<1> QED
  BY <1>2, <1>3, <1>4, <1>5, <1>6 DEF UserStep

LEMMA RefusedChecks ==
    ASSUME Types, ChecksInv, NEW t \in Tenants, ChangeRefused(t)
    PROVE  ChecksInv'
<1>1. /\ UNCHANGED <<listing, queued, verifier, scanner, moved, bare>>
      /\ change' = [change EXCEPT ![t] = NoChange]
  BY DEF ChangeRefused
<1>2. Load' /\ QueuedIsSaved'
  BY <1>1, SameLoad, SavedAsQueued
<1>3. OwnIdentity' /\ ActiveIsVerified' /\ \A j \in Ids : Quiet(j)
  BY <1>1, DimmedIs DEF Dimmed
<1>4. (\A w \in Verifiers : ChecksUrl(w)') /\ (\A x \in Scanners : ScanUrl(x)')
  BY <1>1, <1>3, Kept
<1>5. change'[t].id = 0 /\ \A u \in Tenants : u # t => change'[u] = change[u]
  BY <1>1, NothingIs, Shapes
<1>6. \A j \in Ids : ~ UnderWay(j) => ~ UnderWay(j)'
  BY <1>1 DEF UnderWay
<1>7. \A u \in Tenants : ChangeRead(u)'
  <2>1. ChangeRead(t)'
    BY <1>5 DEF ChangeRead
  <2>2. \A u \in Tenants : u # t => ChangeRead(u)'
    BY <1>3, <1>5, <1>6, ChangesKept
  <2> QED
    BY <2>1, <2>2
<1> QED
  BY <1>2, <1>3, <1>4, <1>7 DEF ChecksInv

-----------------------------------------------------------------------------
(* The invariant.                                                            *)

LEMMA AddedIs ==
    ASSUME NEW k \in Keys
    PROVE  /\ Added(1, k) \in [Ids -> Entries]
           /\ \A j \in Ids : IF j = 1 THEN Added(1, k)[j].key = k /\ Added(1, k)[j].by = "saved"
                                           /\ Added(1, k)[j].status = "unverified"
                                           /\ Added(1, k)[j].ext = "none"
                             ELSE Added(1, k)[j] = NoListing
<1> DEFINE e == [key |-> k, ext |-> "none", status |-> "unverified", by |-> "saved"]
<1>1. e \in Entries /\ e.key = k /\ e.by = "saved" /\ e.status = "unverified" /\ e.ext = "none"
  BY DEF Entries, Exts, Statuses, Places
<1>2. Added(1, k) = [j \in Ids |-> IF 1 # j THEN NoListing ELSE e]
  BY DEF Added
<1> HIDE DEF e
<1> QED
  BY <1>1, <1>2, BlankIs

LEMMA InitListings == ListingsInit => ListingsInv
<1> SUFFICES ASSUME ListingsInit PROVE ListingsInv
  OBVIOUS
<1>0. 1 \in Ids /\ 0 \notin Ids /\ 0 \in 0..MaxHotels
  BY Bounds DEF Ids
<1>1. /\ \A m \in Makers : maker[m] = AtRest
      /\ \A v \in Verifiers : verifier[v] = Unoccupied
      /\ maker \in [Makers -> Work] /\ verifier \in [Verifiers -> Errands] /\ moved = {} /\ bare = {}
      /\ scanner \in [Scanners -> Scans] /\ change \in [Tenants -> Changes]
      /\ (\A x \in Scanners : scanner[x].id = 0) /\ (\A t \in Tenants : change[t].id = 0)
  BY RestIs, IdleIs, NothingIs DEF ListingsInit
<1>2. \A m \in Makers : Inserts(m) /\ IsNew(m) /\ MayLink(m) /\ ReadsHold(m)
  <2>1. DOMAIN << >> = {}
    OBVIOUS
  <2> QED
    BY <1>1, <2>1, RestIs DEF Inserts, IsNew, MayLink, ReadsHold
<1>3. /\ \A v \in Verifiers : ChecksUrl(v)
      /\ \A x \in Scanners : ScanUrl(x)
      /\ \A t \in Tenants : ChangeRead(t)
  BY <1>1, IdleIs DEF ChecksUrl, ScanUrl, ChangeRead
<1>4. ASSUME NEW i \in Ids PROVE Cardinality(Busy(i)) = 0
  <2>1. Busy(i) = {}
    BY <1>0, <1>1, IdleIs DEF Busy
  <2> QED
    BY <2>1, FS_EmptySet
<1>5. \A i \in Ids : queued[i] \in {0, 1}
  BY DEF ListingsInit
<1>6. Load
  BY <1>4, <1>5, Bounds DEF Load
<1>7. CASE /\ hotelRow = [i \in Ids |-> "none"] /\ listing = [i \in Ids |-> NoListing]
           /\ watch = {} /\ queued = [i \in Ids |-> 0]
  <2>1. Types
    BY <1>1, <1>7, BlankIs DEF Types, Places
  <2>2. OwnRows /\ BlankOrWhole /\ OneKeyEach /\ AtWork /\ Watched
    BY <1>7, BlankIs, Bounds DEF OwnRows, BlankOrWhole, OneKeyEach, AtWork, Watched
  <2>3. QueuedIsSaved /\ ActiveIsVerified /\ OwnIdentity
    BY <1>7, BlankIs DEF QueuedIsSaved, ActiveIsVerified, OwnIdentity
  <2> QED
    BY <1>2, <1>3, <1>6, <2>1, <2>2, <2>3 DEF ListingsInv, RowsInv, ChecksInv
<1>8. CASE /\ hotelRow = [i \in Ids |-> IF i = 1 THEN "saved" ELSE "none"]
           /\ queued = [i \in Ids |-> IF i = 1 THEN 1 ELSE 0]
           /\ watch \in {T \X {1} : T \in SUBSET Tenants \ {{}}} /\ \E k \in Keys : listing = Added(1, k)
  <2>1. PICK k \in Keys : listing = Added(1, k)
    BY <1>8
  <2>2. /\ listing \in [Ids -> Entries]
        /\ \A j \in Ids : IF j = 1 THEN listing[j].key = k /\ listing[j].by = "saved"
                                        /\ listing[j].status = "unverified" /\ listing[j].ext = "none"
                          ELSE listing[j] = NoListing
    BY <2>1, AddedIs
  <2>3. watch \subseteq Tenants \X Ids /\ \A x \in watch : x[2] = 1
    BY <1>0, <1>8
  <2>4. Types
    BY <1>1, <1>8, <2>2, <2>3 DEF Types, Places
  <2>5. OwnRows /\ BlankOrWhole /\ OneKeyEach /\ AtWork /\ Watched
    BY <1>0, <1>8, <2>2, <2>3, BlankIs, Bounds DEF OwnRows, BlankOrWhole, OneKeyEach, AtWork, Watched
  <2>6. QueuedIsSaved /\ ActiveIsVerified /\ OwnIdentity
    BY <1>8, <2>2, BlankIs DEF QueuedIsSaved, ActiveIsVerified, OwnIdentity, Saved
  <2> QED
    BY <1>2, <1>3, <1>6, <2>4, <2>5, <2>6 DEF ListingsInv, RowsInv, ChecksInv
<1> QED
  BY <1>7, <1>8 DEF ListingsInit

LEMMA StepListings == ListingsInv /\ [ListingsNext]_listingVars => ListingsInv'
<1> SUFFICES ASSUME ListingsInv, [ListingsNext]_listingVars PROVE ListingsInv'
  OBVIOUS
<1>0. Types /\ RowsInv /\ ChecksInv
  BY DEF ListingsInv
<1>1. ASSUME NEW m \in Makers,
             \/ MakerStep(m) \/ MakerAborts(m)
             \/ \E p \in Pages : StartPage(m, p)
             \/ \E t \in Tenants, k \in Keys : StartAdd(m, t, k)
      PROVE  ListingsInv'
  <2>1. Types'
    BY <1>0, <1>1, MakerTypes
  <2>2. RowsInv'
    BY <1>0, <1>1, <2>1, MakerRows
  <2>3. ChecksInv'
    BY <1>0, <1>1, MakerChecks
  <2> QED
    BY <2>1, <2>2, <2>3 DEF ListingsInv
<1>2. ASSUME NEW v \in Verifiers, VerifierStep(v) \/ NotFound(v) \/ VerifyFails(v)
      PROVE  ListingsInv'
  BY <1>0, <1>2, VerifierTypes, VerifierRows, VerifierChecks DEF ListingsInv
<1>3. ASSUME NEW t \in Tenants, NEW i \in Ids, UserStep(t, i) PROVE ListingsInv'
  BY <1>0, <1>3, UserTypes, UserRows, UserChecks DEF ListingsInv
<1>x. ASSUME NEW x \in Scanners, ScannerStep(x) PROVE ListingsInv'
  BY <1>0, <1>x, ScannerTypes, ScannerRows, ScannerChecks DEF ListingsInv
<1>r. ASSUME NEW t \in Tenants, ChangeRefused(t) PROVE ListingsInv'
  <2>1. RowsInv'
    BY <1>0, <1>r, SameKeepsRows DEF ChangeRefused
  <2> QED
    BY <1>0, <1>r, <2>1, RefusedTypes, RefusedChecks DEF ListingsInv
<1>4. CASE UNCHANGED listingVars
  <2>1. UNCHANGED <<hotelRow, listing, maker, watch, queued, verifier, scanner, change, moved, bare>>
    BY <1>4 DEF listingVars
  <2>2. Types'
    BY <1>0, <2>1, Shapes, NewTypes
  <2>3. RowsInv'
    BY <1>0, <2>1, SameKeepsRows
  <2>4. QueuedIsSaved' /\ Load'
    BY <1>0, <2>1, SavedAsQueued, SameLoad
  <2>5. ChecksInv'
    BY <1>0, <2>1, <2>4, MakersKeepChecks
  <2> QED
    BY <2>2, <2>3, <2>5 DEF ListingsInv
<1> QED
  BY <1>1, <1>2, <1>3, <1>x, <1>r, <1>4 DEF ListingsNext

LEMMA InvMeansSound == ListingsInv => ListingsAreSound
<1> SUFFICES ASSUME ListingsInv PROVE ListingsAreSound
  OBVIOUS
<1>0. Types /\ RowsInv /\ ChecksInv
  BY DEF ListingsInv
<1>1. ListingsTypeOK
  <2>1. ASSUME NEW i \in Ids PROVE queued[i] \in 0..(MaxQueued + Cardinality(Verifiers))
    <3>1. queued[i] + Cardinality(Busy(i)) <= MaxQueued + Cardinality(Verifiers)
      BY <1>0 DEF ChecksInv, Load
    <3>2. queued[i] \in Nat /\ Cardinality(Busy(i)) \in Nat
      BY <1>0, Shapes, BusyIs
    <3> QED
      BY <3>1, <3>2, Bounds
  <2>2. \A i \in Ids : /\ listing[i].key \in Keys \cup {"none"}
                       /\ listing[i].by \in Makers \cup {"none", "saved"}
                       /\ listing[i].status \in {"none", "unverified", "active", "broken", "paused"}
    BY <1>0, Shapes DEF Entries, Places, Statuses
  <2>3. /\ \A x \in Scanners : scanner[x].id \in Ids \cup {0} /\ scanner[x].key \in Keys \cup {"none"}
        /\ \A t \in Tenants : change[t].id \in Ids \cup {0} /\ change[t].key \in Keys \cup {"none"}
    <3>1. 0..MaxHotels = Ids \cup {0}
      BY Bounds DEF Ids
    <3> QED
      BY <1>0, <3>1, Shapes DEF Scans, Changes
  <2>4. hotelRow \in [Ids -> Makers \cup {"none", "saved"}] /\ watch \subseteq Tenants \X Ids
        /\ moved \subseteq Ids /\ bare \subseteq Ids
    BY <1>0, Shapes DEF Places
  <2> QED
    BY <2>1, <2>2, <2>3, <2>4 DEF ListingsTypeOK
<1>2. EveryHotelListed
  <2>1. \A i \in Ids : hotelRow[i] = "saved" => Saved(i)
    BY <1>0, Names DEF Saved
  <2>2. \A i, j \in Ids : listing[i].key = listing[j].key => i = j \/ listing[i] = NoListing
    BY <1>0, Names DEF RowsInv, OneKeyEach
  <2>3. \A x \in watch : hotelRow[x[2]] = "saved"
    BY <1>0 DEF RowsInv, Watched
  <2> QED
    BY <2>1, <2>2, <2>3 DEF EveryHotelListed
<1> QED
  BY <1>0, <1>1, <1>2 DEF ChecksInv, ListingsAreSound

\* What open transactions hold, and what verifications under way know.
THEOREM ListingsInvariant == ListingsSpec => []ListingsInv
<1>1. ListingsInit => ListingsInv
  BY InitListings
<1>2. ListingsInv /\ [ListingsNext]_listingVars => ListingsInv'
  BY StepListings
<1> QED
  BY <1>1, <1>2, PTL DEF ListingsSpec

\* However pages and calls that make the same hotel race, wait for each other and
\* end early, no hotel is saved without its listing and no URL has two; a tenant
\* watches hotels that are there; and an active listing has the identity its URL
\* leads to, or none if its card or its page showed none, though the probes of
\* scan jobs write identities without a look at the URL (upsert.py: _create;
\* listing_jobs.py; snapshots.py: update_listing_identity) - unless its URL
\* changed while a verification or a scan with the old one was under way.
THEOREM ListingsStaySound == ListingsSpec => []ListingsAreSound
<1>1. ListingsSpec => []ListingsInv
  BY ListingsInvariant
<1>2. ListingsInv => ListingsAreSound
  BY InvMeansSound
<1> QED
  BY <1>1, <1>2, PTL
=============================================================================

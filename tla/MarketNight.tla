----------------------------- MODULE MarketNight -----------------------------
(***************************************************************************)
(* One night of an area's list, in discovery (marketscan/service.py and    *)
(* the planner of marketscan/slices.py).  A result page shows the first    *)
(* PerPage hotels of a slice - a set of filters and an order - and counts, *)
(* for further filters, how many hotels they leave: the planner asks next  *)
(* for the slice it expects most new hotels of.                            *)
(***************************************************************************)
EXTENDS Integers, Sequences, FiniteSets, SequencesExt, FiniteSetsExt

CONSTANTS
    Town,        \* the hotels of the area: a function to the filters each satisfies
    SplitBy,     \* the filters a page may offer: a function to their fields
    OnCard,      \* the fields that can be read off a card (CHECKABLE_FIELDS)
    Orders,      \* the orders of a page, "default" among them
    PerPage,     \* hotels on a page
    MaxRequests, \* AreaTarget.max_requests
    Discover     \* this is the discovery night

ASSUME NightBounds ==
    /\ "default" \in Orders /\ {PerPage, MaxRequests} \subseteq Nat \ {0} /\ Discover \in BOOLEAN
    /\ IsFiniteSet(DOMAIN Town) /\ \A h \in DOMAIN Town : Town[h] \subseteq DOMAIN SplitBy

VARIABLES
    seen,       \* the hotels recorded, in the order they were seen
    found,      \* properties_found of the night: the total of the first page, if told
    totals,     \* for filters: how many hotels they leave, as far as known
    matched,    \* for filters that are on the card: how many of the seen satisfy them
    candidates, \* slices worth a request
    fetched,    \* slices observed
    asking,     \* the slice being asked for, and whether the request was repeated
    pages,      \* pages read
    requests,   \* requests sent
    nstatus     \* status of the night's row

nightVars == <<seen, found, totals, matched, candidates, fetched, asking, pages, requests, nstatus>>

MaxDepth == 2
Unknown == -1
Slice(filters, order) == [filters |-> filters, order |-> order]
Root == Slice({}, "default")
Nothing == [slice |-> Root, again |-> FALSE, on |-> FALSE]

NightInit ==
    /\ seen = << >> /\ found = Unknown /\ totals = << >> /\ matched = << >>
    /\ candidates = {} /\ fetched = {} /\ pages = 0 /\ requests = 0 /\ nstatus = "running"
    /\ asking = [Nothing EXCEPT !.on = TRUE]

SeenSet == ToSet(seen)
Satisfying(filters) == {h \in DOMAIN Town : filters \subseteq Town[h]}
KnownPart(filters) == {f \in filters : SplitBy[f] \in OnCard}
FieldsOf(filters) == {SplitBy[f] : f \in filters}

----------------------------------------------------------------------------
(* The planner, as a record [totals, matched, candidates], [fetched] and   *)
(* the hotels seen being what they are: _track, _know, add_cards, observe. *)
Planner == [totals |-> totals, matched |-> matched, candidates |-> candidates]
Without(f, x) == [y \in DOMAIN f \ {x} |-> f[y]]
With(f, g) == [x \in DOMAIN f \cup DOMAIN g |-> IF x \in DOMAIN f THEN f[x] ELSE g[x]]

(* told: a function from filters to the totals a page tells; those known   *)
(* already are left alone.                                                 *)
Track(p, filters, hotels) ==
    With(p.matched, [k \in {KnownPart(x) : x \in filters} |-> Cardinality(hotels \cap Satisfying(k))])

FreshAgain(new, done) == {Slice(x, o) : x \in new, o \in Orders} \* Mutant: fetched slices are candidates again
FreshSlices(new, done) == {Slice(x, o) : x \in new, o \in Orders} \ done
Know(p, told, hotels, done) ==
    LET new == DOMAIN told \ DOMAIN p.totals IN
    [totals |-> With(p.totals, told), matched |-> Track(p, new, hotels),
     candidates |-> p.candidates \cup FreshSlices(new, done)]

(* Cards already seen are not counted again.                               *)
AddAllCards(p, shown, hotels) == \* Mutant: they are
    [p EXCEPT !.matched = [k \in DOMAIN @ |-> @[k] + Cardinality(shown \cap Satisfying(k))]]
AddCards(p, shown, hotels) ==
    [p EXCEPT !.matched = [k \in DOMAIN @ |-> @[k] + Cardinality((shown \ hotels) \cap Satisfying(k))]]

(* A page: the hotels it shows, the total it tells, its facets (a function *)
(* from filters to counts).                                                *)
Observe(p, s, page, hotels) ==
    LET done == fetched \cup {s}
        q == [p EXCEPT !.candidates = @ \ {s}]
        r == IF page.total = Unknown THEN q
             ELSE Know([q EXCEPT !.totals = Without(@, s.filters)], [x \in {s.filters} |-> page.total], hotels, done)
        total == IF s.filters \in DOMAIN r.totals THEN r.totals[s.filters] ELSE Unknown
        split == {f \in DOMAIN page.facets : /\ SplitBy[f] \notin FieldsOf(s.filters)
                                             /\ page.facets[f] \in 1..(total - 1)}
        told == [x \in {s.filters \cup {f} : f \in split} |-> page.facets[CHOOSE f \in x : f \notin s.filters]]
    IN IF total = Unknown \/ total <= Len(page.cards)
       THEN [r EXCEPT !.candidates = {c \in @ : c.filters # s.filters}]
       ELSE IF Cardinality(s.filters) >= MaxDepth THEN r
       ELSE Know(r, told, hotels, done)

(* matching and gain, as fractions: <<n, d>>.  How many of the slice have  *)
(* been seen is counted where the cards tell, else taken in proportion to  *)
(* the totals; whole is the planner's properties_found, the first page's.  *)
Matching(p, filters, whole) ==
    LET known == KnownPart(filters)
        m == p.matched[known]
        total == p.totals[filters]
        base == IF known = {} THEN whole
                ELSE IF known \in DOMAIN p.totals THEN p.totals[known] ELSE Unknown
    IN IF known = filters \/ total = 0 \/ base \in {0, Unknown} \/ total > base THEN <<m, 1>>
       ELSE <<m * total, base>>

Gain(p, s, whole) ==
    LET total == IF s.filters \in DOMAIN p.totals THEN p.totals[s.filters] ELSE 0
        m == Matching(p, s.filters, whole)
        seenOf == IF m[1] > total * m[2] THEN <<total, 1>> ELSE m
        page == Min({PerPage, total})
        rest == page * seenOf[2] - seenOf[1]
    IN IF total = 0 THEN <<0, 1>>
       ELSE IF s.order = "default" THEN <<Max({0, rest}), seenOf[2]>>
       ELSE <<9 * page * (total * seenOf[2] - seenOf[1]), 10 * total * seenOf[2]>>

(* next: the greatest gain, if it is a hotel at least; among equals the    *)
(* smaller total, the fewer filters, the default order.                    *)
More(x, y) == x[1] * y[2] > y[1] * x[2]
Even(x, y) == x[1] * y[2] = y[1] * x[2]
SmallTotal(p, s) == IF s.filters \in DOMAIN p.totals THEN p.totals[s.filters] ELSE 0
Prefers(p, s, t, whole) ==
    \/ More(Gain(p, s, whole), Gain(p, t, whole))
    \/ /\ Even(Gain(p, s, whole), Gain(p, t, whole))
       /\ \/ SmallTotal(p, s) < SmallTotal(p, t)
          \/ /\ SmallTotal(p, s) = SmallTotal(p, t)
             /\ \/ Cardinality(s.filters) < Cardinality(t.filters)
                \/ Cardinality(s.filters) = Cardinality(t.filters)
                   /\ (s.order = "default" \/ t.order # "default")
BestSlices(p, whole) == {s \in p.candidates : /\ ~More(<<1, 1>>, Gain(p, s, whole))
                                              /\ \A t \in p.candidates : Prefers(p, s, t, whole)}
----------------------------------------------------------------------------
(* A page of a slice: hotels of the slice, as many as fit, in some order;  *)
(* its total may be missing.                                               *)
PagesOf(s) ==
    LET all == Satisfying(s.filters)
        n == Min({PerPage, Cardinality(all)})
        facets == [f \in {g \in DOMAIN SplitBy : SplitBy[g] \notin FieldsOf(s.filters)} |->
                     Cardinality(Satisfying(s.filters \cup {f}))]
    IN [cards : {SetToSeq(x) : x \in {y \in SUBSET all : Cardinality(y) = n}},
        total : {Cardinality(all), Unknown}, facets : {facets}]

(* add_cards, _record and _save: what is new is ranked after what was seen *)
(* before.                                                                 *)
See(hotels, h) == IF h \in ToSet(hotels) THEN hotels ELSE Append(hotels, h)
Record(page) == seen' = FoldLeft(See, seen, page.cards)
SetPlanner(p) == totals' = p.totals /\ matched' = p.matched /\ candidates' = p.candidates

(* After a page: the next slice, or the night is done.  The first page's   *)
(* total is the planner's before its first choice.                         *)
GoOn(p) ==
    LET done == found' > 0 /\ 100 * Len(seen') >= 98 * found'  best == BestSlices(p, found') IN
    IF ~Discover \/ pages' >= MaxRequests \/ done \/ best = {}
    THEN nstatus' = "completed" /\ asking' = Nothing /\ SetPlanner(p)
    ELSE \E s \in best : /\ asking' = [slice |-> s, again |-> FALSE, on |-> TRUE]
                         /\ SetPlanner([p EXCEPT !.candidates = @ \ {s}])
                         /\ UNCHANGED nstatus

(* _scan: the first page is recorded before the planner observes it, ...   *)
FirstPage(page) ==
    LET empty == [totals |-> << >>, matched |-> << >>, candidates |-> {}]
        start == IF page.total = Unknown THEN empty ELSE Know(empty, [x \in {{}} |-> page.total], {}, {})
        p == AddCards(start, ToSet(page.cards), {})
    IN /\ asking.on /\ pages = 0 /\ (page.cards # << >> \/ page.total # Unknown)
       /\ pages' = 1 /\ requests' = requests + 1 /\ found' = page.total /\ Record(page)
       /\ fetched' = IF Discover THEN {Root} ELSE {}
       /\ GoOn(IF Discover THEN Observe(p, Root, page, SeenSet \cup ToSet(page.cards)) ELSE p)

(* ... a later one after.                                                  *)
NextPage(page) ==
    LET s == asking.slice
        p == AddCards(Observe(Planner, s, page, SeenSet), ToSet(page.cards), SeenSet)
    IN /\ asking.on /\ pages > 0
       /\ pages' = pages + 1 /\ requests' = requests + 1
       /\ fetched' = fetched \cup {s} /\ Record(page) /\ UNCHANGED found
       /\ GoOn(p)

(* _page: a request that is blocked, shows another day or fails is sent    *)
(* once more, and the budget is not charged for it; ...                    *)
RepeatPage ==
    /\ asking.on /\ ~asking.again
    /\ asking' = [asking EXCEPT !.again = TRUE] /\ requests' = requests + 1
    /\ UNCHANGED <<seen, found, totals, matched, candidates, fetched, pages, nstatus>>

(* ... then, or at once when the place is not found, the night ends.       *)
NightFails(why) ==
    /\ asking.on /\ (asking.again \/ why = "blocked")
    /\ nstatus' = why /\ asking' = Nothing /\ requests' = requests + 1
    /\ UNCHANGED <<seen, found, totals, matched, candidates, fetched, pages>>

(* A first page with neither hotels nor a total counts as read and ends it. *)
NoResults ==
    /\ asking.on /\ pages = 0
    /\ pages' = 1 /\ nstatus' = "blocked" /\ asking' = Nothing /\ requests' = requests + 1
    /\ UNCHANGED <<seen, found, totals, matched, candidates, fetched>>

NightNext ==
    \/ \E page \in PagesOf(asking.slice) : FirstPage(page) \/ NextPage(page)
    \/ RepeatPage \/ NoResults \/ \E why \in {"blocked", "error"} : NightFails(why)

NightSpec == NightInit /\ [][NightNext]_nightVars

----------------------------------------------------------------------------
(* The counters the planner's estimates rest on, kept up card by card, are *)
(* what a count over the cards seen would give: a card shown by two pages  *)
(* is counted once, and a counter begun late has the cards of before; and  *)
(* no hotel has two ranks.                                                 *)
CountsAgree ==
    /\ IsInjective(seen)
    /\ \A k \in DOMAIN matched : matched[k] = Cardinality(SeenSet \cap Satisfying(k))

(* A slice once read is never asked for again, though its total is told    *)
(* again and again, and the night reads no more pages than its budget.     *)
(* The budget is of pages: a request repeated after a block is not charged *)
(* to it, so the requests sent are at most twice as many.                  *)
NoPageTwice ==
    /\ asking.on => asking.slice \notin fetched
    /\ candidates \cap fetched = {}
    /\ Cardinality(fetched) <= pages /\ pages <= MaxRequests
    /\ requests \in pages..(2 * MaxRequests)

(* Whatever the pages of overlapping slices show: nothing is counted twice *)
(* and no slice that was read is asked for again (slices.py, service.py).  *)
NightIsWhole == CountsAgree /\ NoPageTwice

=============================================================================

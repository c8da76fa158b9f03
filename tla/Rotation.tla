------------------------------ MODULE Rotation ------------------------------
(***************************************************************************)
(* How the daemon's passes take turns: what each tick looks at of listings *)
(* longer than its budget.  A pass lists the parents that have work, in    *)
(* the order of their ids, and each parent's rows, oldest first; starts    *)
(* both from persisted cursors taken modulo the present length; deals one  *)
(* row of each parent in turn until the budget is spent; and moves a       *)
(* parent's cursor by the rows it really looked at.                        *)
(*                                                                         *)
(* A reconciled attempt stays listed until it is settled, and leaves for   *)
(* good.  A delivery that is put off leaves the listing and comes back to  *)
(* its old place when it is eligible again.  A tick is one step: what      *)
(* happens to a row during it is an outcome.                               *)
(***************************************************************************)
EXTENDS Naturals, FiniteSets

CONSTANTS
  Parents,    \* how many there are, numbered in the order of their ids
  Rows,       \* model bound on the rows of a parent, numbered by age
  Budget,     \* rows a tick looks at
  SendShare,  \* max_sends_per_parent_per_tick
  Recheck,    \* ticks until a delivery that was put off is eligible again
  Deaf,       \* rows whose recipient takes nothing: they are put off whenever they are tried
  MaxComing,  \* model bounds on the rows that arrive,
  MaxPutOff   \*   and on the other deliveries put off

VARIABLES
  pass,    \* "reconcile" or "deliver"
  row,     \* [Row -> "coming", "open" or "over"]
  out,     \* ticks until the row is listed again
  first,   \* the cursor over parents
  place,   \* the cursor over each parent's rows
  looked,  \* history: the rows the last tick looked at; and the ticks in a row each was
  waited,  \*   listed and not looked at
  putOff

rotationVars == <<pass, row, out, first, place, looked, waited, putOff>>

Row == (1..Parents) \X (1..Rows)

RotationInit ==
  /\ pass \in {"reconcile", "deliver"}
  /\ row \in [Row -> {"coming", "open"}]
  /\ \A p \in 1..Parents, i \in 1..(Rows - 1) : row[<<p, i + 1>>] = "open" => row[<<p, i>>] = "open"
  /\ Cardinality({r \in Row : row[r] = "coming"}) <= MaxComing
  /\ out = [r \in Row |-> 0]
  /\ first = 0
  /\ place = [p \in 1..Parents |-> 0]
  /\ looked = {}
  /\ waited = [r \in Row |-> 0]
  /\ putOff = 0

\* ELIGIBLE_WHERE and UNRESOLVED.
Listed  == {r \in Row : row[r] = "open" /\ out[r] = 0}
Listing == {r[1] : r \in Listed}

RowsOf(p) == {r \in Listed : r[1] = p}

\* Every parent comes first once in as many ticks as there are parents, and then each of its rows
\* once in as many as there are rows; what leaves may set a cursor back once.
Patience == Parents * Rows

\* How far behind the cursor, going round, comes what has n before it in its listing.
Behind(n, cursor, length) == (n + length - (cursor % length)) % length

\* What a parent may put forward.
Share ==
  IF pass = "deliver" THEN SendShare
  ELSE IF Budget < Cardinality(Listing) THEN 1 ELSE Budget \div Cardinality(Listing)

\* A window of each listing; one near the end goes on from the front.
Windows ==
  LET listed  == Listed
      listing == Listing
      Place(r) ==
        LET mine == {s[2] : s \in {q \in listed : q[1] = r[1]}} IN
        [row   |-> r,
         round |-> Behind(Cardinality({n \in mine : n < r[2]}), place[r[1]], Cardinality(mine)),
         turn  |-> Behind(Cardinality({p \in listing : p < r[1]}), first, Cardinality(listing))]
  IN {w \in {Place(r) : r \in listed} : w.round < Share}

Before(v, w) == v.round < w.round \/ (v.round = w.round /\ v.turn < w.turn)

\* One row of each parent in every round, while the budget lasts.
Dealt(windows) == {w \in windows : Cardinality({v \in windows : Before(v, w)}) < Budget}

\* mutant: a cursor moves by what its parent put forward, dealt or not
AdvancedBySelected(p, windows, looks) == Cardinality({w \in windows : w.row[1] = p})

Advanced(p, windows, looks) == Cardinality({r \in looks : r[1] = p})

Looked(windows, looks) ==
  LET listed == Listed
      Moved(cursor, by, length) == ((cursor % length) + by) % length
  IN
  /\ looked' = looks
  /\ waited' = [r \in Row |->
       IF r \in looks \/ r \notin listed THEN 0
       ELSE IF waited[r] > Patience THEN waited[r] ELSE waited[r] + 1]
  /\ first' = Moved(first, 1, Cardinality(Listing))
  /\ place' = [p \in 1..Parents |->
       IF Advanced(p, windows, looks) = 0 THEN place[p]
       ELSE Moved(place[p], Advanced(p, windows, looks), Cardinality(RowsOf(p)))]

\* Time passes for what was put off, whatever else the tick does.
Sooner(r) == IF out[r] > 0 THEN out[r] - 1 ELSE 0

\* _reconcile: some of the attempts dealt are settled.
Reconcile ==
  /\ pass = "reconcile" /\ Listed # {}
  /\ LET windows == Windows
         dealt   == {w.row : w \in Dealt(windows)}
     IN  /\ Looked(windows, dealt)
         /\ \E settled \in SUBSET dealt :
              row' = [r \in Row |-> IF r \in settled THEN "over" ELSE row[r]]
  /\ UNCHANGED <<pass, out, putOff>>

\* _deliver: a send is dispatched, held as uncertain, refused and still listed, or put off; after
\* anything but a dispatch its parent is not tried again in this tick.
Deliver ==
  /\ pass = "deliver" /\ Listed # {}
  /\ LET windows == Windows
         dealt   == Dealt(windows)
     IN  \E sent \in SUBSET ({w.row : w \in dealt} \ Deaf) :
           LET looks == {w.row : w \in {u \in dealt : \A v \in dealt :
                           v.row[1] = u.row[1] /\ v.round < u.round => v.row \in sent}}
           IN  /\ sent \subseteq looks
               /\ Looked(windows, looks)
               /\ \E held \in SUBSET (looks \ (sent \cup Deaf)) :
                  \E off \in SUBSET (looks \ (sent \cup held \cup Deaf)) :
                    /\ row' = [r \in Row |-> IF r \in sent \cup held THEN "over" ELSE row[r]]
                    /\ putOff' = putOff + Cardinality(off) /\ putOff' <= MaxPutOff
                    /\ out' = [r \in Row |-> IF r \in off \cup (looks \cap Deaf)
                                            THEN Recheck - 1 ELSE Sooner(r)]
  /\ UNCHANGED pass

\* A tick that finds nothing to do.
Nothing ==
  /\ Listed = {} /\ \E r \in Row : out[r] > 0
  /\ out' = [r \in Row |-> Sooner(r)]
  /\ looked' = {}
  /\ UNCHANGED <<pass, row, first, place, waited, putOff>>

Tick == Reconcile \/ Deliver \/ Nothing

Arrive(r) ==
  /\ row[r] = "coming"
  /\ r[2] > 1 => row[<<r[1], r[2] - 1>>] # "coming"
  /\ row' = [row EXCEPT ![r] = "open"]
  /\ UNCHANGED <<pass, out, first, place, looked, waited, putOff>>

RotationNext == Tick \/ \E r \in Row : Arrive(r)

-----------------------------------------------------------------------------
(***************************************************************************)
(* However long the listings are against the budget, no row is stepped     *)
(* over for long: so many ticks after it was listed, one has looked at it, *)
(* unless deliveries keep being put off (daemon.py, _reconcile, _deliver). *)
(***************************************************************************)
NoRowWaitsLong == \A r \in Row : waited[r] <= Patience

(***************************************************************************)
(* "Wrapping on the count taken before the tick keeps the window inside a  *)
(* parent moving without ever stepping over an unread row" (daemon.py,     *)
(* _deliver): while a row is open, one tick after another looks at it,     *)
(* with the daemon running.                                                *)
(***************************************************************************)
EveryRowIsReached == \A r \in Row : []<>(row[r] # "open" \/ r \in looked)
=============================================================================

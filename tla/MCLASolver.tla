----------------------------- MODULE MCLASolver -----------------------------
(***************************************************************************)
(* Problems for TLC: integers x, y with x + 2y; reals u, w with u + w and  *)
(* u - w; reals ra, rb, rc with four sums, on which the heuristic of short *)
(* rows and short columns alone pivots in a circle; and a real rv with a   *)
(* bound that is declared late between two others.                         *)
(***************************************************************************)
EXTENDS LASolver

CONSTANTS x, y, x2y, u, w, sum, diff, ra, rb, rc, abc, bc, ab_c, a2b, rv

AtLeast(t, k) == [var |-> t, c |-> Whole(k), neg |-> FALSE]
NotOver(t, k) == [var |-> t, c |-> Whole(-k), neg |-> TRUE]

MCVars == {x, y, x2y, u, w, sum, diff, ra, rb, rc, abc, bc, ab_c, a2b, rv}
MCRows == x2y :> (x :> One @@ y :> Whole(2))
          @@ sum :> (u :> One @@ w :> One)
          @@ diff :> (u :> One @@ w :> Whole(-1))
          @@ abc :> (ra :> One @@ rb :> Whole(-1) @@ rc :> Whole(-2))
          @@ bc :> (rb :> One @@ rc :> One)
          @@ ab_c :> (ra :> One @@ rb :> One @@ rc :> Whole(-1))
          @@ a2b :> (ra :> One @@ rb :> Whole(-2))
MCIntVars == {x, y, x2y}
MCInterface == {u, w}
Integer == <<NotOver(x, 0), AtLeast(x2y, 1), NotOver(x2y, 1)>>
Real == <<NotOver(u, 0), AtLeast(sum, 0)>>
Circle == <<NotOver(abc, -1), AtLeast(rb, -2), NotOver(rb, 2), AtLeast(rc, 0), AtLeast(bc, 0),
            AtLeast(ab_c, 2), AtLeast(a2b, 2)>>
Single == <<AtLeast(rv, 0), NotOver(rv, 2)>>
MCLate == {AtLeast(diff, 1), AtLeast(rv, 1)}
MCLong == {[i \in DOMAIN Circle |-> [tr |-> Circle[i], sgn |-> TRUE]]}
MCDeclared == {Integer, Real, Circle, Single}
MCAtoms == ToSet(Integer) \cup ToSet(Real) \cup ToSet(Circle) \cup ToSet(Single) \cup MCLate
           \cup {NotOver(y, 0), AtLeast(y, 1)}
=============================================================================

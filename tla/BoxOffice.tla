----------------------------- MODULE BoxOffice -----------------------------
(***************************************************************************)
(* What a Capacity collection promises its callers, with no ledger, no     *)
(* holds, no clock and no crashes: a box office has a highest ceiling it   *)
(* was ever given and a set of sales it has acknowledged.  A sale is       *)
(* permanent, a reservation is sold at most once, and the units sold never *)
(* exceed the highest ceiling.                                             *)
(***************************************************************************)
EXTENDS Integers, FiniteSets

VARIABLES
  ceiling,  (* the highest total ever set                            *)
  sold      (* acknowledged sales, records [id, amount]              *)

boxVars == <<ceiling, sold>>

(* The units of a set of sales: one pair per unit, so that the sum of the  *)
(* amounts is the number of pairs.                                         *)
SaleUnits(sales) == UNION { {s.id} \X (1..s.amount) : s \in sales }

SoldOnce(sales) == \A s, t \in sales : s.id = t.id => s = t

BoxInit == ceiling = 0 /\ sold = {}

(* Sales are only ever added, and only while they fit.                     *)
Sell == /\ sold \subseteq sold'
        /\ SoldOnce(sold')
        /\ Cardinality(SaleUnits(sold')) <= ceiling
        /\ ceiling' = ceiling

Raise == ceiling' > ceiling /\ sold' = sold

BoxNext == Sell \/ Raise

BoxSpec == BoxInit /\ [][BoxNext]_boxVars
=============================================================================

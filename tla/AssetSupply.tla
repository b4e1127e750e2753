---------------------------- MODULE AssetSupply ----------------------------
(***************************************************************************)
(* The supply counter that both native assets keep.  CUSDSOQSupply          *)
(* (consensus/usdsoq.cpp) and CBTCSOQSupply (consensus/btcsoq.cpp) are the  *)
(* same arithmetic: two cumulative counters, mutated by four checked        *)
(* operations that return false and change nothing when a check fails.      *)
(* An operation is modelled as a guard (CanX) and a total function (X) that *)
(* returns its argument unchanged when the guard is false.                  *)
(***************************************************************************)
EXTENDS Integers

CONSTANT MaxMoney   \* MAX_MONEY, the per-amount ceiling of MoneyRange

ASSUME MaxMoneyAssumption == MaxMoney \in Nat

MoneyRange(n) == n >= 0 /\ n <= MaxMoney

NewSupply == [minted |-> 0, burned |-> 0]

Outstanding(s) == s.minted - s.burned

\* The comparison with the largest CAmount is subsumed by MoneyRange:
\* 2 * MAX_MONEY fits in an int64 (static_assert in amount.h).
MintUnbounded(s, n) == n > 0     \* slip: the ceiling is not checked
CanMint(s, n) ==
    /\ n > 0
    /\ MoneyRange(s.minted + n)
    /\ MoneyRange(s.minted + n - s.burned)

Mint(s, n) == IF CanMint(s, n) THEN [s EXCEPT !.minted = @ + n] ELSE s

CanBurn(s, n) ==
    /\ n > 0
    /\ s.burned + n <= s.minted
    /\ MoneyRange(s.burned + n)

Burn(s, n) == IF CanBurn(s, n) THEN [s EXCEPT !.burned = @ + n] ELSE s

UndoMintStrict(s, n) ==              \* slip: off by one when nothing else is minted
    n > 0 /\ n <= s.minted /\ s.minted - n > s.burned
\* Reversing a mint refuses to leave fewer minted than are already burned.
CanUndoMint(s, n) ==
    /\ n > 0
    /\ n <= s.minted
    /\ s.minted - n >= s.burned
    /\ MoneyRange(s.minted - n)

UndoMint(s, n) == IF CanUndoMint(s, n) THEN [s EXCEPT !.minted = @ - n] ELSE s

CanUndoBurn(s, n) ==
    /\ n > 0
    /\ n <= s.burned
    /\ MoneyRange(s.burned - n)
    /\ MoneyRange(s.minted - (s.burned - n))

UndoBurn(s, n) == IF CanUndoBurn(s, n) THEN [s EXCEPT !.burned = @ - n] ELSE s

\* CheckInvariant()
SupplyInvariant(s) ==
    /\ MoneyRange(s.minted)
    /\ MoneyRange(s.burned)
    /\ s.burned <= s.minted
    /\ MoneyRange(Outstanding(s))

SupplyType == [minted : Int, burned : Int]
=============================================================================

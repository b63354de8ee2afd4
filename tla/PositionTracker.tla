-------------------------- MODULE PositionTracker ---------------------------
(***************************************************************************)
(* risk::PositionTracker (src/risk/position_tracker.cpp): inventory, mean  *)
(* entry price and realized P&L, kept in separate atomics.  One thread     *)
(* applies the fills, another updates the mid, others (risk gate, circuit  *)
(* breaker, database snapshots) read; the fields are not read or written   *)
(* as a group, so a read of the equity may mix old and new values.         *)
(*                                                                         *)
(* Quantities are in lots and prices in ticks.  total_fees_ is left out:   *)
(* the equity does not count it.                                           *)
(***************************************************************************)
EXTENDS FillAccounting, Sequences

CONSTANTS
  Prices,   (* prices of fills, and mids                     *)
  MaxInv,   (* bound: largest position, in lots              *)
  MaxFills  (* bound: number of fills                        *)

ASSUME PositionTrackerAssumption ==
  /\ Prices \subseteq Nat \ {0}
  /\ MaxInv \in Nat /\ MaxFills \in Nat

VARIABLES
  inv,      (* current_inventory_                            *)
  ae,       (* avg_entry_price_                              *)
  realized, (* realized_pnl_                                 *)
  mid,      (* last_mid_                                     *)
  storing,  (* the store apply_fill is about to do           *)
  new,      (* what it computed                              *)
  fills,    (* fills so far                                  *)
  left,     (* the loads a call of equity() has yet to do    *)
  seen,     (* the values it has loaded                      *)
  cash,     (* history: money received less money paid       *)
  held,     (* history: lots bought less lots sold           *)
  lowest,   (* history: least true equity since the call began *)
  calm      (* history: no other thread's step during the call *)

writerVars == <<inv, ae, realized, storing, new, fills, cash, held>>
readerVars == <<left, seen>>
trackerVars == <<writerVars, readerVars, mid, lowest, calm>>

Lowest(S) == CHOOSE e \in S : \A o \in S : e <= o

(* The money the account would have after closing at the mid; during a fill *)
(* also without that fill.                                                  *)
TrueEquities ==
  {cash + held * mid}
    \cup (IF storing = "none" THEN {}
          ELSE {cash + new.qty * new.price + (held - new.qty) * mid})

NoFill == [qty |-> 0, price |-> 0, inv |-> 0, ae |-> 0, gain |-> 0]
NothingSeen == [inv |-> 0, ae |-> 0, realized |-> 0, mid |-> 0]

(* A mid is known before the first order, hence before the first fill. *)
Init ==
  /\ inv = 0 /\ ae = 0 /\ realized = 0
  /\ mid \in Prices
  /\ storing = "none" /\ new = NoFill /\ fills = 0
  /\ left = <<>> /\ seen = NothingSeen
  /\ cash = 0 /\ held = 0
  /\ lowest = 0 /\ calm = TRUE

(* What a step of another thread changes for a call in progress. *)
Witnessed ==
  IF left = <<>> THEN UNCHANGED <<lowest, calm>>
  ELSE lowest' = Lowest({lowest} \cup TrueEquities') /\ calm' = FALSE

-----------------------------------------------------------------------------
(* apply_fill of a signed quantity n at price p *)

ApplyFill(n, p) ==
  /\ storing = "none" /\ fills < MaxFills
  /\ new' = [qty |-> n, price |-> p,
             inv |-> inv + n, ae |-> Entry(inv, ae, n, p),
             gain |-> Gain(inv, ae, n, p)]
  /\ storing' = "realized"
  /\ fills' = fills + 1
  /\ cash' = cash - n * p
  /\ held' = held + n
  /\ UNCHANGED <<inv, ae, realized, mid, readerVars>>
  /\ Witnessed

StoreRealized ==
  /\ storing = "realized"
  /\ realized' = realized + new.gain
  /\ storing' = "inventory"
  /\ UNCHANGED <<inv, ae, new, fills, cash, held, mid, readerVars>>
  /\ Witnessed

StoreInventory ==
  /\ storing = "inventory"
  /\ inv' = new.inv
  /\ storing' = "entry"
  /\ UNCHANGED <<ae, realized, new, fills, cash, held, mid, readerVars>>
  /\ Witnessed

StoreEntry ==
  /\ storing = "entry"
  /\ ae' = new.ae
  /\ storing' = "none" /\ new' = NoFill
  /\ UNCHANGED <<inv, realized, fills, cash, held, mid, readerVars>>
  /\ Witnessed

(* The strategy thread: update_mid. *)
UpdateMid(m) ==
  /\ m # mid
  /\ mid' = m
  /\ UNCHANGED <<writerVars, readerVars>>
  /\ Witnessed

-----------------------------------------------------------------------------
(* equity(): realized_pnl() and unrealized_pnl() are the operands of a sum, *)
(* which C++ evaluates in either order.                                     *)

Unrealized == <<"inv", "mid", "ae">>
Orders == {<<"realized">> \o Unrealized, Unrealized \o <<"realized">>}

BeginEquity ==
  /\ left = <<>>
  /\ left' \in Orders
  /\ seen' = NothingSeen
  /\ lowest' = Lowest(TrueEquities)
  /\ calm' = (storing = "none")
  /\ UNCHANGED <<writerVars, mid>>

Fields == [inv |-> inv, ae |-> ae, realized |-> realized, mid |-> mid]

Load ==
  /\ left # <<>>
  /\ seen' = [seen EXCEPT ![Head(left)] = Fields[Head(left)]]
  /\ left' = Tail(left)
  /\ UNCHANGED <<writerVars, mid, lowest, calm>>

(* What the call returns. *)
Equity == seen.realized + (IF seen.inv = 0 THEN 0 ELSE seen.inv * (seen.mid - seen.ae))
Returned == left = <<>> /\ seen # NothingSeen

-----------------------------------------------------------------------------

Quantities == {n \in -(2 * MaxInv)..(2 * MaxInv) : n # 0 /\ Abs(held + n) <= MaxInv}

Next ==
  \/ \E n \in Quantities, p \in Prices : ApplyFill(n, p)
  \/ StoreRealized \/ StoreInventory \/ StoreEntry
  \/ \E m \in Prices : UpdateMid(m)
  \/ BeginEquity \/ Load

Spec == Init /\ [][Next]_trackerVars

-----------------------------------------------------------------------------
(* Properties *)

(* The type of every variable. *)
TypeOK ==
  /\ inv \in -MaxInv..MaxInv /\ held \in -MaxInv..MaxInv
  /\ ae \in Nat /\ realized \in Int /\ mid \in Prices /\ cash \in Int
  /\ storing \in {"none", "realized", "inventory", "entry"}
  /\ new \in [qty : Int, price : Nat, inv : -MaxInv..MaxInv, ae : Nat, gain : Int]
  /\ fills \in 0..MaxFills
  /\ left \in Seq({"inv", "ae", "realized", "mid"})
  /\ seen \in [inv : Int, ae : Nat, realized : Int, mid : Nat]
  /\ lowest \in Int /\ calm \in BOOLEAN

(* A call of equity() that no store disturbed returns the money the account *)
(* would have after closing at the mid: the books balance after whatever    *)
(* was opened, enlarged, reduced, closed or flipped before.                 *)
CalmReadIsExact == Returned /\ calm => Equity = lowest

=============================================================================

------------------------ MODULE PositionExit_proofs ------------------------
(***************************************************************************)
(* Proofs about PositionExit, for any set of positions, any stake, any     *)
(* sizes and any prices: what is closed stays closed, what is held is      *)
(* known, and the books of a closed row are the cash it brought.           *)
(*                                                                         *)
(* The argument.  A fill is booked in three places at three times: the     *)
(* wallet when the exchange answers, memory one step later, the row after  *)
(* that.  The invariant says, for every point of the loop, which of the    *)
(* three agree: `BeliefInv` between sales, `DealInv` while an answer has   *)
(* not reached memory.  `RowInv` carries the finality of a close: a        *)
(* position that memory keeps after its row got a price is resolved, so    *)
(* the exchange fills nothing of it and only a settlement, at whatever     *)
(* price it finds, can write that row once more.                           *)
(***************************************************************************)
EXTENDS PositionExit, TLAPS

Shares == 0..Initial
Money  == Nat \cup {Null}

TypeInv ==
    /\ row \in [Positions -> [status : {"open", "closed"}, shares : Shares, usdc : Money,
                              exit : Money, recorded : Int, late : BOOLEAN]]
    /\ mem \in [Positions -> [listed : BOOLEAN, shares : Shares, usdc : Money,
                              closing : BOOLEAN]]
    /\ wallet \in [Positions -> [held : Shares, cash : Nat]]
    /\ resolved \subseteq Positions
    /\ pc \in {"down", "reconcile", "idle", "selling", "sold", "logging", "closing"}
    /\ path \in {"none", "monitor", "flatten"}
    /\ deal \in [reply : {"none", "filled", "bare"}, q : Nat, px : Nat]
    /\ todo \subseteq Positions
    /\ unbooked \subseteq Positions

(* Where the loop is, memory and the list of the reconcile go together. *)
LoopInv ==
    /\ pc \in {"selling", "sold", "logging", "closing"} => cur \in Positions
    /\ pc \in {"selling", "sold", "logging"} => mem[cur].listed
    /\ pc = "closing" => ~mem[cur].listed /\ deal.reply # "none"
    /\ pc = "down" => \A p \in Positions : ~mem[p].listed
    /\ pc # "reconcile" => todo = {}
    /\ \A p \in todo : row[p].status = "open" /\ mem[p].listed

(* A fill that memory has not taken in yet. *)
Pending(p) == pc \in {"sold", "closing"} /\ deal.reply # "none" /\ cur = p

DealInv ==
    pc \in {"sold", "closing"} /\ deal.reply # "none" =>
        /\ deal.q > 0 /\ deal.px > 0 /\ deal.q <= mem[cur].shares
        /\ row[cur].exit = Null
        /\ deal.reply = "bare" => deal.q = mem[cur].shares /\ cur \in unbooked
        /\ deal.reply = "filled" => wallet[cur].held + deal.q <= mem[cur].shares
        /\ cur \notin unbooked =>
              /\ mem[cur].shares = wallet[cur].held + deal.q
              /\ wallet[cur].cash = Amount(mem[cur].usdc) + deal.q * deal.px
              /\ Amount(mem[cur].usdc) = 0 => mem[cur].shares = Initial
        /\ pc = "closing" => Full(deal.q, mem[cur].shares)

(* A price is in closed rows only, and what memory keeps of them is resolved. *)
RowInv ==
    \A p \in Positions : row[p].exit # Null =>
        /\ row[p].status = "closed"
        /\ mem[p].listed => p \in resolved

(* No sale without cash. *)
WalletInv == \A p \in Positions : wallet[p].cash = 0 => wallet[p].held = Initial

(* Memory knows the wallet; the row does where memory does not know the    *)
(* position.                                                               *)
BeliefInv ==
    \A p \in Positions : p \notin unbooked /\ ~Pending(p) =>
        /\ mem[p].listed =>
              mem[p].shares = wallet[p].held /\ Amount(mem[p].usdc) = wallet[p].cash
        /\ ~mem[p].listed /\ row[p].status = "open" =>
              row[p].shares = wallet[p].held /\ Amount(row[p].usdc) = wallet[p].cash

IInv == /\ TypeInv /\ LoopInv /\ DealInv /\ RowInv /\ WalletInv /\ BeliefInv
        /\ NothingOrphaned /\ ClosedMeansGone /\ BooksMatchCash

USE DEF Null, NoDeal, Unlisted, loop

(* A product of positive amounts is positive; shares and a fill are paid   *)
(* like the shares and the fill.                                           *)
LEMMA Payments ==
    /\ \A q, px \in Nat : q > 0 /\ px > 0 => q * px \in Nat /\ q * px > 0
    /\ \A q, px \in Nat : q * px \in Nat
    /\ \A h, q, px \in Nat : (h + q) * px = px * h + q * px
<1>1. \A q, px \in Nat : q * px \in Nat
  OBVIOUS
<1>2. \A q, px \in Nat : q > 0 /\ px > 0 => q * px > 0
  OBVIOUS
<1>3. \A h, q, px \in Nat : (h + q) * px = px * h + q * px
  OBVIOUS
<1> QED
  BY <1>1, <1>2, <1>3

(* What a close records is the cash, when memory is right about the sales. *)
LEMMA RecordedIsCash ==
    ASSUME NEW held \in Shares, NEW shares \in Shares, NEW usdc \in Money,
           NEW cash \in Nat, NEW q \in Nat, NEW px \in Nat,
           shares = held + q, cash = Amount(usdc) + q * px,
           Amount(usdc) = 0 => shares = Initial
    PROVE  Recorded(shares, usdc, px) = cash + px * held
<1>1. (held + q) * px = px * held + q * px
  BY Payments, ExitAssumption DEF Shares
<1>2. q * px \in Nat /\ px * held \in Nat
  BY Payments, ExitAssumption DEF Shares
<1>3. CASE Amount(usdc) > 0
  BY <1>1, <1>2, <1>3 DEF Recorded, Amount, Money
<1>4. CASE ~(Amount(usdc) > 0)
  <2>1. Amount(usdc) = 0
    BY <1>4 DEF Amount, Money
  <2> QED
    BY <1>1, <1>2, <1>4, <2>1 DEF Recorded
<1> QED
  BY <1>3, <1>4

LEMMA InitIInv == Init => IInv
BY ExitAssumption DEF Init, IInv, TypeInv, LoopInv, DealInv, RowInv, WalletInv, BeliefInv,
   Pending, NothingOrphaned, ClosedMeansGone, BooksMatchCash, Shares, Money, Amount

(* The conjuncts that speak of one position, and the truth about it. *)
PositionInv(p) ==
    /\ row[p].exit # Null => row[p].status = "closed" /\ (mem[p].listed => p \in resolved)
    /\ wallet[p].cash = 0 => wallet[p].held = Initial
    /\ p \notin unbooked /\ ~Pending(p) =>
        /\ mem[p].listed =>
              mem[p].shares = wallet[p].held /\ Amount(mem[p].usdc) = wallet[p].cash
        /\ ~mem[p].listed /\ row[p].status = "open" =>
              row[p].shares = wallet[p].held /\ Amount(row[p].usdc) = wallet[p].cash
    /\ mem[p].listed => wallet[p].held <= mem[p].shares
    /\ row[p].status = "open" => wallet[p].held <= row[p].shares
    /\ row[p].status = "closed" /\ row[p].exit # Null /\ p \notin unbooked =>
            p \in resolved \/ 50 * wallet[p].held <= Initial
    /\ row[p].exit # Null /\ p \notin unbooked /\ ~row[p].late => row[p].recorded = CashOf(p)

LEMMA ByPosition ==
    (\A p \in Positions : PositionInv(p)) <=>
        RowInv /\ WalletInv /\ BeliefInv /\ NothingOrphaned /\ ClosedMeansGone /\ BooksMatchCash
BY DEF PositionInv, RowInv, WalletInv, BeliefInv, NothingOrphaned, ClosedMeansGone, BooksMatchCash

LEMMA FromPositions ==
    ASSUME TypeInv', LoopInv', DealInv', \A p \in Positions : PositionInv(p)'
    PROVE  IInv'
BY DEF IInv, PositionInv, RowInv, WalletInv, BeliefInv, NothingOrphaned, ClosedMeansGone,
       BooksMatchCash

LEMMA StartSellInv ==
    ASSUME IInv, NEW p \in Positions, NEW how \in {"monitor", "flatten"}, StartSell(p, how)
    PROVE  IInv'
<1>1. \A x \in Positions : /\ mem'[x].listed = mem[x].listed
                           /\ mem'[x].shares = mem[x].shares
                           /\ mem'[x].usdc = mem[x].usdc
  BY DEF StartSell, IInv, TypeInv
<1>2. TypeInv'
  BY DEF StartSell, IInv, TypeInv
<1>3. LoopInv' /\ DealInv'
  BY <1>1 DEF StartSell, IInv, TypeInv, LoopInv, DealInv
<1>4. \A x \in Positions : PositionInv(x)'
  BY <1>1, ByPosition DEF StartSell, IInv, PositionInv, Pending, CashOf
<1> QED
  BY <1>2, <1>3, <1>4, FromPositions

LEMMA DieInv ==
    ASSUME IInv, Die, UNCHANGED <<row, wallet, resolved>>
    PROVE  IInv'
BY ExitAssumption DEF Die, Synced, Sold, IInv, TypeInv, LoopInv, DealInv, RowInv, WalletInv, BeliefInv,
   Pending, NothingOrphaned, ClosedMeansGone, BooksMatchCash, CashOf, Shares, Money


LEMMA UnsoldInv == ASSUME IInv, Unsold PROVE IInv'
<1>1. \A x \in Positions : /\ mem'[x].listed = mem[x].listed
                           /\ mem'[x].shares = mem[x].shares
                           /\ mem'[x].usdc = mem[x].usdc
  BY DEF Unsold, IInv, TypeInv, LoopInv
<1>2. TypeInv'
  BY DEF Unsold, Continue, IInv, TypeInv
<1>3. LoopInv' /\ DealInv'
  BY <1>1 DEF Unsold, Continue, IInv, TypeInv, LoopInv, DealInv
<1>4. \A x \in Positions : PositionInv(x)'
  BY <1>1, ByPosition DEF Unsold, Continue, IInv, PositionInv, Pending, CashOf
<1> QED
  BY <1>2, <1>3, <1>4, FromPositions

LEMMA CloseSoldInv == ASSUME IInv, CloseSold PROVE IInv'
<1>1. \A x \in Positions : /\ x # cur => mem'[x].listed = mem[x].listed
                           /\ mem'[x].shares = mem[x].shares
                           /\ mem'[x].usdc = mem[x].usdc
  BY DEF CloseSold, IInv, TypeInv, LoopInv
<1>0. cur \in Positions /\ ~mem'[cur].listed
  BY DEF CloseSold, IInv, TypeInv, LoopInv
<1>2. TypeInv'
  BY DEF CloseSold, IInv, TypeInv
<1>3. LoopInv' /\ DealInv'
  BY <1>1, <1>0 DEF CloseSold, IInv, TypeInv, LoopInv, DealInv, Full
<1>4. \A x \in Positions : PositionInv(x)'
  BY <1>1, <1>0, ByPosition DEF CloseSold, IInv, PositionInv, Pending, CashOf
<1> QED
  BY <1>2, <1>3, <1>4, FromPositions

LEMMA AnswerInv ==
    ASSUME IInv, NEW reply \in {"none", "filled", "bare"}, NEW q \in Nat, NEW px \in Prices,
           Answer(reply, q, px)
    PROVE  IInv'
<1>1. /\ cur \in Positions /\ mem[cur].listed /\ px \in Nat /\ px > 0
      /\ mem[cur].shares \in Shares /\ wallet[cur].held \in Shares /\ wallet[cur].cash \in Nat
      /\ row[cur].exit # Null => q = 0
      /\ q > 0 => cur \notin resolved
  BY ExitAssumption DEF Answer, IInv, TypeInv, LoopInv, RowInv
<1>5. q * px \in Nat /\ (q > 0 => q * px > 0) /\ (q = 0 => q * px = 0)
  BY <1>1, Payments
<1>6. /\ \A x \in Positions : x # cur => wallet'[x] = wallet[x]
      /\ wallet'[cur].held = wallet[cur].held - q
      /\ wallet'[cur].cash = wallet[cur].cash + q * px
      /\ wallet'[cur].held \in Shares /\ wallet'[cur].cash \in Nat
  BY <1>1, <1>5, ExitAssumption DEF Answer, IInv, TypeInv, Shares
<1>7. /\ deal'.reply = reply
      /\ reply = "none" => deal'.q = 0 /\ deal'.px = 0
      /\ reply = "filled" => deal'.q = q /\ deal'.px = px
      /\ reply = "bare" => deal'.q = mem[cur].shares /\ deal'.px = px
      /\ deal' \in [reply : {"none", "filled", "bare"}, q : Nat, px : Nat]
  BY <1>1, ExitAssumption DEF Answer, Shares
<1>8. /\ UNCHANGED <<row, mem, resolved, cur, path, todo>> /\ pc = "selling" /\ pc' = "sold"
      /\ unbooked' = IF reply # "filled" /\ q > 0 THEN unbooked \cup {cur} ELSE unbooked
      /\ q <= wallet[cur].held /\ q <= mem[cur].shares
      /\ reply # "none" => q > 0
  BY DEF Answer
<1>2. TypeInv'
  <2>1. wallet' \in [Positions -> [held : Shares, cash : Nat]]
    BY <1>1, <1>6 DEF Answer, IInv, TypeInv
  <2> QED
    BY <1>1, <1>7, <1>8, <2>1 DEF IInv, TypeInv
<1>9. PositionInv(cur)
  BY <1>1, ByPosition DEF IInv
<1>3. LoopInv' /\ DealInv'
  <2>1. LoopInv'
    BY <1>1, <1>8 DEF IInv, LoopInv
  <2>2. DealInv'
    <3>1. cur \notin unbooked => /\ mem[cur].shares = wallet[cur].held
                                 /\ wallet[cur].cash = Amount(mem[cur].usdc)
                                 /\ wallet[cur].cash = 0 => wallet[cur].held = Initial
      BY <1>1, <1>8, <1>9 DEF PositionInv, Pending
    <3>2. wallet[cur].held <= mem[cur].shares
      BY <1>1, <1>9 DEF PositionInv
    <3>3. reply # "none" => row[cur].exit = Null
      BY <1>1, <1>8
    <3>4. CASE reply = "filled"
      <4>0. Amount(mem[cur].usdc) \in Nat
        BY <1>1 DEF Amount, Money, IInv, TypeInv
      <4>1. deal'.q = q /\ deal'.px = px /\ q > 0 /\ unbooked' = unbooked
        BY <1>7, <1>8, <3>4
      <4>2. wallet'[cur].held + q <= mem[cur].shares
        BY <1>1, <1>6, <3>2 DEF Shares
      <4>5. q \in Int /\ wallet[cur].held \in Int /\ mem[cur].shares \in Int
        BY <1>1, ExitAssumption DEF Shares
      <4>3. cur \notin unbooked => /\ mem[cur].shares = wallet'[cur].held + q
                                   /\ Amount(mem[cur].usdc) = 0 => mem[cur].shares = Initial
        BY <1>1, <1>6, <3>1, <4>0, <4>5 DEF Shares
      <4>4. cur \notin unbooked => wallet'[cur].cash = Amount(mem[cur].usdc) + q * px
        BY <1>1, <1>5, <1>6, <3>1, <4>0
      <4>6. q * px = deal'.q * deal'.px /\ deal'.reply = "filled"
        BY <1>7, <3>4, <4>1
      <4> QED
        BY <1>1, <1>8, <3>3, <3>4, <4>0, <4>1, <4>2, <4>3, <4>4, <4>6 DEF DealInv
    <3>5. CASE reply = "bare"
      BY <1>1, <1>7, <1>8, <3>3, <3>5, ExitAssumption DEF DealInv, Shares
    <3>6. CASE reply = "none"
      BY <1>7, <3>6 DEF DealInv
    <3> QED
      BY <3>4, <3>5, <3>6
  <2> QED
    BY <2>1, <2>2
<1>4. ASSUME NEW x \in Positions PROVE PositionInv(x)'
  <2>1. PositionInv(x)
    BY ByPosition DEF IInv
  <2>2. CASE x # cur
    BY <1>6, <1>8, <2>1, <2>2 DEF PositionInv, Pending, CashOf
  <2>3. CASE x = cur /\ q = 0
    BY <1>1, <1>5, <1>6, <1>7, <1>8, <2>1, <2>3 DEF PositionInv, Pending, CashOf, Shares
  <2>4. CASE x = cur /\ q > 0
    <3>1. row[x].exit = Null
      BY <1>1, <2>4
    <3>2. reply = "none" => x \in unbooked'
      BY <1>8, <2>4
    <3>3. reply # "none" => Pending(x)'
      BY <1>7, <1>8, <2>4 DEF Pending
    <3>4. wallet'[x].cash # 0 /\ wallet'[x].held <= wallet[x].held
      BY <1>1, <1>5, <1>6, <2>4 DEF Shares
    <3>5. /\ mem[x].listed => wallet'[x].held <= mem[x].shares
          /\ row[x].status = "open" => wallet'[x].held <= row[x].shares
      BY <1>1, <1>6, <2>1, <2>4, <3>4 DEF PositionInv, Shares, IInv, TypeInv
    <3> QED
      BY <1>8, <3>1, <3>2, <3>3, <3>4, <3>5 DEF PositionInv
  <2> QED
    BY <1>8, <2>2, <2>3, <2>4
<1> QED
  BY <1>2, <1>3, <1>4, FromPositions

(* A dict with the amounts: the fill moves from the wallet to memory. *)
LEMMA PartialFillInv == ASSUME IInv, PartialFill PROVE IInv'
<1>1. /\ cur \in Positions /\ mem[cur].listed /\ pc = "sold" /\ deal.reply # "none"
      /\ mem[cur].shares \in Shares /\ deal.q \in Nat /\ deal.px \in Nat
      /\ mem[cur].usdc \in Nat
  BY DEF PartialFill, IInv, TypeInv, LoopInv, Money
<1>5. deal.q * deal.px \in Nat /\ deal.q * deal.px > 0
  BY <1>1, Payments DEF IInv, DealInv
<1>6. /\ deal.reply = "filled" /\ mem[cur].shares - deal.q \in Shares
      /\ wallet[cur].held + deal.q <= mem[cur].shares
  BY <1>1, ExitAssumption DEF PartialFill, IInv, DealInv, Full, Shares, TypeInv
<1>7. /\ \A x \in Positions : x # cur => mem'[x] = mem[x]
      /\ mem'[cur].listed /\ mem'[cur].shares = mem[cur].shares - deal.q
      /\ mem'[cur].usdc = mem[cur].usdc + deal.q * deal.px
      /\ mem' \in [Positions -> [listed : BOOLEAN, shares : Shares, usdc : Money, closing : BOOLEAN]]
  BY <1>1, <1>5, <1>6 DEF PartialFill, IInv, TypeInv, Money
<1>8. /\ UNCHANGED <<row, wallet, resolved, todo, unbooked>>
      /\ \/ pc' = "logging" /\ UNCHANGED <<cur, path, deal>>
         \/ Continue
  BY DEF PartialFill
<1>2. TypeInv'
  BY <1>7, <1>8 DEF Continue, IInv, TypeInv
<1>3. LoopInv' /\ DealInv'
  BY <1>1, <1>7, <1>8 DEF Continue, IInv, LoopInv, DealInv
<1>4. ASSUME NEW x \in Positions PROVE PositionInv(x)'
  <2>1. PositionInv(x)
    BY ByPosition DEF IInv
  <2>2. CASE x # cur
    BY <1>7, <1>8, <2>1, <2>2 DEF Continue, PositionInv, Pending, CashOf
  <2>3. CASE x = cur
    BY <1>1, <1>5, <1>6, <1>7, <1>8, <2>1, <2>3
       DEF Continue, PositionInv, Pending, Shares, IInv, TypeInv, DealInv, Amount
  <2> QED
    BY <2>2, <2>3
<1> QED
  BY <1>2, <1>3, <1>4, FromPositions

LEMMA PartialRaisesInv == ASSUME IInv, PartialRaises PROVE IInv'
<1>1. CASE Die
  BY <1>1, DieInv DEF PartialRaises
<1>2. CASE ~Die
  <2>1. /\ cur \in Positions /\ mem[cur].listed /\ pc = "sold" /\ deal.reply # "none"
        /\ mem[cur].shares \in Shares /\ deal.q \in Nat
        /\ mem[cur].shares - deal.q \in Shares
        /\ wallet[cur].held + deal.q <= mem[cur].shares
    BY ExitAssumption DEF PartialRaises, IInv, TypeInv, LoopInv, DealInv, Full, Shares
  <2>2. /\ \A x \in Positions : x # cur => mem'[x] = mem[x]
        /\ mem'[cur].listed /\ mem'[cur].shares = mem[cur].shares - deal.q
        /\ mem' \in [Positions -> [listed : BOOLEAN, shares : Shares, usdc : Money, closing : BOOLEAN]]
    <3>1. mem' = [mem EXCEPT ![cur].shares = @ - deal.q, ![cur].closing = FALSE]
      BY <1>2 DEF PartialRaises
    <3>2. mem \in [Positions -> [listed : BOOLEAN, shares : Shares, usdc : Money, closing : BOOLEAN]]
      BY DEF IInv, TypeInv
    <3> QED
      BY <2>1, <3>1, <3>2
  <2>3. /\ unbooked' = unbooked \cup {cur} /\ Continue /\ UNCHANGED <<todo, row, wallet, resolved>>
    BY <1>2 DEF PartialRaises
  <2>4. TypeInv'
    BY <2>1, <2>2, <2>3 DEF Continue, IInv, TypeInv
  <2>5. LoopInv' /\ DealInv'
    BY <2>1, <2>2, <2>3 DEF Continue, IInv, LoopInv, DealInv
  <2>6. ASSUME NEW x \in Positions PROVE PositionInv(x)'
    <3>1. PositionInv(x)
      BY ByPosition DEF IInv
    <3> QED
      BY <2>1, <2>2, <2>3, <3>1 DEF Continue, PositionInv, Pending, CashOf, Shares,
         IInv, TypeInv, DealInv
  <2> QED
    BY <2>4, <2>5, <2>6, FromPositions
<1> QED
  BY <1>1, <1>2

LEMMA LogPartialInv == ASSUME IInv, NEW w \in Outcomes, LogPartial(w) PROVE IInv'
<1>1. /\ cur \in Positions /\ mem[cur].listed /\ pc = "logging" /\ Continue
      /\ UNCHANGED <<mem, wallet, resolved, todo, unbooked>>
  BY DEF LogPartial, IInv, LoopInv
<1>5. /\ \A x \in Positions : x # cur => row'[x] = row[x]
      /\ \A x \in Positions : /\ row'[x].status = row[x].status /\ row'[x].exit = row[x].exit
                              /\ row'[x].recorded = row[x].recorded
                              /\ row'[x].late = row[x].late
      /\ row'[cur].status = "open" => row'[cur] = row[cur] \/ row'[cur].shares = mem[cur].shares
      /\ row' \in [Positions -> [status : {"open", "closed"}, shares : Shares, usdc : Money,
                                 exit : Money, recorded : Int, late : BOOLEAN]]
  <2>1. row \in [Positions -> [status : {"open", "closed"}, shares : Shares, usdc : Money,
                               exit : Money, recorded : Int, late : BOOLEAN]]
        /\ mem[cur].shares \in Shares /\ mem[cur].usdc \in Money
    BY <1>1 DEF IInv, TypeInv
  <2>2. CASE row' = row
    BY <2>1, <2>2
  <2>3. CASE row' = [row EXCEPT ![cur].shares = mem[cur].shares, ![cur].usdc = mem[cur].usdc]
    BY <1>1, <2>1, <2>3
  <2> QED
    BY <2>2, <2>3 DEF LogPartial
<1>2. TypeInv'
  BY <1>1, <1>5 DEF Continue, IInv, TypeInv
<1>3. LoopInv' /\ DealInv'
  BY <1>1, <1>5 DEF Continue, IInv, LoopInv, DealInv, TypeInv
<1>4. ASSUME NEW x \in Positions PROVE PositionInv(x)'
  <2>1. PositionInv(x)
    BY ByPosition DEF IInv
  <2> QED
    BY <1>1, <1>5, <2>1 DEF Continue, PositionInv, Pending, CashOf
<1> QED
  BY <1>2, <1>3, <1>4, FromPositions

LEMMA CloseRaisesInv == ASSUME IInv, CloseRaises PROVE IInv'
<1>1. CASE Die
  BY <1>1, DieInv DEF CloseRaises
<1>2. CASE ~Die
  <2>1. /\ unbooked' = unbooked \cup {cur} /\ Continue /\ UNCHANGED <<mem, todo, row, wallet, resolved>>
        /\ pc = "sold" /\ cur \in Positions
    BY <1>2 DEF CloseRaises, IInv, LoopInv
  <2>4. TypeInv'
    BY <2>1 DEF Continue, IInv, TypeInv
  <2>5. LoopInv' /\ DealInv'
    BY <2>1 DEF Continue, IInv, LoopInv, DealInv
  <2>6. ASSUME NEW x \in Positions PROVE PositionInv(x)'
    <3>1. PositionInv(x)
      BY ByPosition DEF IInv
    <3> QED
      BY <2>1, <3>1 DEF Continue, PositionInv, Pending, CashOf
  <2> QED
    BY <2>4, <2>5, <2>6, FromPositions
<1> QED
  BY <1>1, <1>2

(* The close of a sale: the row becomes what the wallet already is. *)
LEMMA LogCloseInv == ASSUME IInv, NEW w \in Outcomes, LogClose(w) PROVE IInv'
<1>1. /\ cur \in Positions /\ ~mem[cur].listed /\ pc = "closing" /\ Continue
      /\ deal.reply \in {"filled", "bare"} /\ deal.q \in Nat /\ deal.px \in Nat /\ deal.px # Null
      /\ UNCHANGED <<wallet, resolved, todo>>
      /\ unbooked' = IF Commits(w) THEN unbooked ELSE unbooked \cup {cur}
      /\ mem[cur].shares \in Shares /\ mem[cur].usdc \in Money
      /\ wallet[cur].held \in Shares /\ wallet[cur].cash \in Nat
  BY DEF LogClose, IInv, LoopInv, TypeInv
<1>5. /\ \A x \in Positions : x # cur => row'[x] = row[x] /\ mem'[x] = mem[x]
      /\ ~mem'[cur].listed
      /\ ~Commits(w) => row'[cur] = row[cur]
      /\ Commits(w) => row'[cur] = Closed(row[cur], mem[cur], deal.px)
  BY <1>1 DEF LogClose, IInv, TypeInv
<1>6. Recorded(mem[cur].shares, mem[cur].usdc, deal.px) \in Int
  <2>1. mem[cur].shares * deal.px \in Nat /\ Initial * deal.px \in Nat
    BY <1>1, Payments, ExitAssumption DEF Shares
  <2> QED
    BY <1>1, <2>1 DEF Recorded, Money
<1>7. Closed(row[cur], mem[cur], deal.px) \in
        [status : {"open", "closed"}, shares : Shares, usdc : Money,
         exit : Money, recorded : Int, late : BOOLEAN]
  BY <1>1, <1>6 DEF Closed, IInv, TypeInv, Money
<1>2. TypeInv'
  <2>1. row' \in [Positions -> [status : {"open", "closed"}, shares : Shares, usdc : Money,
                                exit : Money, recorded : Int, late : BOOLEAN]]
    BY <1>1, <1>7 DEF LogClose, IInv, TypeInv
  <2>2. mem' \in [Positions -> [listed : BOOLEAN, shares : Shares, usdc : Money, closing : BOOLEAN]]
    <3>1. Unlisted \in [listed : BOOLEAN, shares : Shares, usdc : Money, closing : BOOLEAN]
      BY ExitAssumption DEF Shares, Money
    <3> HIDE DEF Unlisted
    <3> QED
      BY <3>1 DEF LogClose, IInv, TypeInv
  <2> QED
    BY <1>1, <2>1, <2>2 DEF Continue, IInv, TypeInv
<1>3. LoopInv' /\ DealInv'
  BY <1>1, <1>5 DEF Continue, IInv, LoopInv, DealInv
<1>8. cur \notin unbooked => /\ deal.reply = "filled"
                             /\ 50 * wallet[cur].held <= Initial
                             /\ Recorded(mem[cur].shares, mem[cur].usdc, deal.px) =
                                  wallet[cur].cash + deal.px * wallet[cur].held
  <2>1. CASE cur \notin unbooked
    <3>1. /\ deal.reply = "filled" /\ mem[cur].shares = wallet[cur].held + deal.q
          /\ wallet[cur].cash = Amount(mem[cur].usdc) + deal.q * deal.px
          /\ Amount(mem[cur].usdc) = 0 => mem[cur].shares = Initial
          /\ Full(deal.q, mem[cur].shares)
      BY <1>1, <2>1 DEF IInv, DealInv
    <3>2. 50 * wallet[cur].held <= Initial
      BY <1>1, <3>1, ExitAssumption DEF Full, Shares
    <3> QED
      BY <1>1, <3>1, <3>2, RecordedIsCash
  <2> QED
    BY <2>1
<1>4. ASSUME NEW x \in Positions PROVE PositionInv(x)'
  <2>1. PositionInv(x)
    BY ByPosition DEF IInv
  <2>2. CASE x # cur
    BY <1>1, <1>5, <2>1, <2>2 DEF Continue, PositionInv, Pending, CashOf
  <2>3. CASE x = cur /\ ~Commits(w)
    BY <1>1, <1>5, <2>1, <2>3 DEF Continue, PositionInv, Pending, CashOf
  <2>4. CASE x = cur /\ Commits(w)
    <3>1. /\ row'[x].status = "closed" /\ row'[x].exit = deal.px
          /\ row'[x].recorded = Recorded(mem[cur].shares, mem[cur].usdc, deal.px)
      BY <1>1, <1>5, <2>4 DEF Closed
    <3> QED
      BY <1>1, <1>5, <1>8, <2>1, <2>4, <3>1 DEF Continue, PositionInv, Pending, CashOf
  <2> QED
    BY <2>2, <2>3, <2>4
<1> QED
  BY <1>2, <1>3, <1>4, FromPositions

(* A settlement: at the price of the market, or, by the reconcile, at none. *)
LEMMA CloseAtInv ==
    ASSUME IInv, NEW p \in Positions, NEW px \in Money, NEW w \in Outcomes, CloseAt(p, px, w),
           mem[p].listed, pc \in {"idle", "reconcile"}, pc' \in {"idle", "reconcile"},
           UNCHANGED <<wallet, resolved, cur, path, deal, unbooked>>,
           todo' \subseteq todo, p \notin todo', pc' = "idle" => todo' = {},
           (px # Null /\ p \in resolved) \/ (px = Null /\ row[p].exit = Null)
    PROVE  IInv'
<1>1. /\ mem[p].shares \in Shares /\ mem[p].usdc \in Money
      /\ wallet[p].held \in Shares /\ wallet[p].cash \in Nat
  BY DEF IInv, TypeInv
<1>5. /\ \A x \in Positions : x # p => row'[x] = row[x] /\ mem'[x] = mem[x]
      /\ w = "failed" => row'[p] = row[p]
      /\ w # "failed" => row'[p] = Closed(row[p], mem[p], px)
      /\ w = "ok" => ~mem'[p].listed
      /\ w # "ok" => mem'[p] = mem[p]
  BY DEF CloseAt, Commits, Returns, IInv, TypeInv
<1>6. px # Null => Recorded(mem[p].shares, mem[p].usdc, px) \in Int
  <2>1. CASE px # Null
    <3>1. px \in Nat
      BY <2>1 DEF Money
    <3>2. mem[p].shares * px \in Nat /\ Initial * px \in Nat
      BY <1>1, <3>1, Payments, ExitAssumption DEF Shares
    <3> QED
      BY <1>1, <3>2 DEF Recorded, Money
  <2> QED
    BY <2>1
<1>7. Closed(row[p], mem[p], px) \in
        [status : {"open", "closed"}, shares : Shares, usdc : Money,
         exit : Money, recorded : Int, late : BOOLEAN]
  BY <1>1, <1>6 DEF Closed, IInv, TypeInv
<1>2. TypeInv'
  <2>1. row' \in [Positions -> [status : {"open", "closed"}, shares : Shares, usdc : Money,
                                exit : Money, recorded : Int, late : BOOLEAN]]
    BY <1>7 DEF CloseAt, IInv, TypeInv
  <2>2. mem' \in [Positions -> [listed : BOOLEAN, shares : Shares, usdc : Money, closing : BOOLEAN]]
    <3>1. Unlisted \in [listed : BOOLEAN, shares : Shares, usdc : Money, closing : BOOLEAN]
      BY ExitAssumption DEF Shares, Money
    <3> HIDE DEF Unlisted
    <3> QED
      BY <3>1 DEF CloseAt, IInv, TypeInv
  <2> QED
    BY <2>1, <2>2 DEF IInv, TypeInv
<1>3. LoopInv' /\ DealInv'
  BY <1>5 DEF IInv, LoopInv, DealInv, TypeInv
<1>8. p \notin unbooked /\ px # Null =>
        Recorded(mem[p].shares, mem[p].usdc, px) = wallet[p].cash + px * wallet[p].held
  <2>1. CASE p \notin unbooked /\ px # Null
    <3>1. PositionInv(p) /\ ~Pending(p)
      BY ByPosition DEF IInv, Pending
    <3>2. /\ mem[p].shares = wallet[p].held /\ Amount(mem[p].usdc) = wallet[p].cash
          /\ Amount(mem[p].usdc) = 0 => mem[p].shares = Initial
      BY <2>1, <3>1 DEF PositionInv
    <3>3. px \in Nat
      BY <2>1 DEF Money
    <3>4. /\ wallet[p].held * px = px * wallet[p].held /\ px * wallet[p].held \in Nat
          /\ Initial * px = px * Initial
      BY <1>1, <3>3, ExitAssumption DEF Shares
    <3>5. CASE Amount(mem[p].usdc) > 0
      BY <1>1, <3>2, <3>4, <3>5 DEF Recorded, Amount
    <3>6. CASE ~(Amount(mem[p].usdc) > 0)
      <4>1. wallet[p].cash = 0 /\ wallet[p].held = Initial
        BY <1>1, <3>2, <3>6
      <4> QED
        BY <1>1, <3>2, <3>4, <3>6, <4>1 DEF Recorded
    <3> QED
      BY <3>5, <3>6
  <2> QED
    BY <2>1
<1>4. ASSUME NEW x \in Positions PROVE PositionInv(x)'
  <2>1. PositionInv(x)
    BY ByPosition DEF IInv
  <2>2. CASE x # p
    BY <1>5, <2>1, <2>2 DEF PositionInv, Pending, CashOf
  <2>3. CASE x = p /\ w = "failed"
    BY <1>5, <2>1, <2>3 DEF PositionInv, Pending, CashOf
  <2>4. CASE x = p /\ w # "failed"
    <3>1. /\ row'[x].status = "closed" /\ row'[x].exit = px
          /\ px # Null => row'[x].recorded = Recorded(mem[p].shares, mem[p].usdc, px)
          /\ px # Null => p \in resolved
      BY <1>5, <2>4 DEF Closed
    <3> QED
      BY <1>5, <1>8, <2>1, <2>4, <3>1 DEF PositionInv, Pending, CashOf
  <2> QED
    BY <2>2, <2>3, <2>4
<1> QED
  BY <1>2, <1>3, <1>4, FromPositions

LEMMA SettleInv ==
    ASSUME IInv, NEW p \in Positions, NEW w \in Outcomes,
           \/ \E px \in Payouts : MonitorSettle(p, px, w)
           \/ \E wins \in BOOLEAN : WsSettle(p, wins, w)
    PROVE  IInv'
<1>1. PICK px \in Payouts \cup {0, Whole} :
         /\ pc = "idle" /\ mem[p].listed /\ p \in resolved /\ CloseAt(p, px, w)
         /\ UNCHANGED <<wallet, resolved, loop, todo, unbooked>>
  BY DEF MonitorSettle, WsSettle
<1>3. px \in Nat
  BY ExitAssumption
<1>2. todo = {} /\ px \in Money /\ px # Null
  BY <1>1, <1>3 DEF IInv, LoopInv, Money
<1> QED
  BY <1>1, <1>2, CloseAtInv

LEMMA ReconcileInv ==
    ASSUME IInv, NEW p \in Positions, NEW w \in Outcomes,
           ReconcileSilent(p, w) \/ \E px \in Payouts : ReconcileResolved(p, px, w)
    PROVE  IInv'
<1>1. /\ pc = "reconcile" /\ p \in todo /\ Reconciled(p) /\ mem[p].listed
      /\ row[p].exit = Null
      /\ UNCHANGED <<wallet, resolved, cur, path, deal, unbooked>>
      /\ todo' \subseteq todo /\ p \notin todo' /\ pc' \in {"idle", "reconcile"}
      /\ pc' = "idle" => todo' = {}
  BY DEF ReconcileResolved, ReconcileSilent, Reconciled, IInv, LoopInv, RowInv
<1>2. PICK px \in Payouts \cup {Null} :
         CloseAt(p, px, w) /\ (px # Null => p \in resolved)
  BY DEF ReconcileResolved, ReconcileSilent
<1>3. px \in Money
  BY ExitAssumption DEF Money
<1> QED
  BY <1>1, <1>2, <1>3, CloseAtInv

LEMMA ReconcileSkipInv == ASSUME IInv, NEW p \in Positions, ReconcileSkip(p) PROVE IInv'
<1>1. TypeInv' /\ LoopInv' /\ DealInv'
  BY DEF ReconcileSkip, Reconciled, IInv, TypeInv, LoopInv, DealInv
<1>2. \A x \in Positions : PositionInv(x)'
  BY ByPosition DEF ReconcileSkip, Reconciled, IInv, PositionInv, Pending, CashOf
<1> QED
  BY <1>1, <1>2, FromPositions

(* The heal writes rows closed without a price, marks them late. *)
LEMMA HealInv ==
    ASSUME IInv, NEW p \in Positions, NEW px \in Payouts, NEW w \in Outcomes, Heal(p, px, w)
    PROVE  IInv'
<1>1. /\ px \in Nat /\ Initial * px \in Int /\ pc = "idle"
      /\ UNCHANGED <<mem, wallet, resolved, loop, todo, unbooked>>
  BY ExitAssumption DEF Heal
<1>5. /\ \A x \in Positions : x # p => row'[x] = row[x]
      /\ row'[p].status = "closed"
      /\ \/ row'[p] = row[p]
         \/ row'[p].exit = px /\ row'[p].late
      /\ row' \in [Positions -> [status : {"open", "closed"}, shares : Shares, usdc : Money,
                                 exit : Money, recorded : Int, late : BOOLEAN]]
  <2>1. row \in [Positions -> [status : {"open", "closed"}, shares : Shares, usdc : Money,
                               exit : Money, recorded : Int, late : BOOLEAN]]
        /\ px \in Money /\ row[p].status = "closed"
    BY <1>1 DEF Heal, IInv, TypeInv, Money
  <2>2. CASE row' = row
    BY <2>1, <2>2
  <2>3. CASE row' = [row EXCEPT ![p].exit = px, ![p].late = TRUE,
                                ![p].recorded = Initial * px]
    BY <1>1, <2>1, <2>3
  <2> QED
    BY <2>2, <2>3 DEF Heal
<1>2. TypeInv'
  BY <1>1, <1>5 DEF IInv, TypeInv
<1>3. LoopInv' /\ DealInv'
  BY <1>1, <1>5 DEF IInv, LoopInv, DealInv
<1>4. ASSUME NEW x \in Positions PROVE PositionInv(x)'
  <2>1. PositionInv(x)
    BY ByPosition DEF IInv
  <2> QED
    BY <1>1, <1>5, <2>1 DEF Heal, PositionInv, Pending, CashOf
<1> QED
  BY <1>2, <1>3, <1>4, FromPositions

LEMMA RestartInv == ASSUME IInv, Restart PROVE IInv'
<1>1. /\ \A x \in Positions : /\ mem'[x].listed <=> row[x].status = "open"
                              /\ mem'[x].listed => /\ mem'[x].shares = row[x].shares
                                                   /\ mem'[x].usdc = row[x].usdc
      /\ UNCHANGED <<row, wallet, resolved, cur, path, deal, unbooked>>
      /\ todo' = OpenRows /\ pc' = (IF OpenRows = {} THEN "idle" ELSE "reconcile")
  BY DEF Restart, OpenRows
<1>2. TypeInv'
  <2>1. mem' \in [Positions -> [listed : BOOLEAN, shares : Shares, usdc : Money, closing : BOOLEAN]]
    BY ExitAssumption DEF Restart, OpenRows, IInv, TypeInv, Shares, Money
  <2> QED
    BY <1>1, <2>1 DEF OpenRows, IInv, TypeInv
<1>3. LoopInv' /\ DealInv'
  BY <1>1 DEF OpenRows, LoopInv, DealInv
<1>4. ASSUME NEW x \in Positions PROVE PositionInv(x)'
  <2>1. PositionInv(x) /\ ~mem[x].listed
    BY ByPosition DEF IInv, LoopInv, Restart
  <2> QED
    BY <1>1, <2>1 DEF Restart, PositionInv, Pending, CashOf
<1> QED
  BY <1>2, <1>3, <1>4, FromPositions

(* A market that resolves had no settled position. *)
LEMMA ResolveInv ==
    ASSUME IInv, NEW p \in Positions, Resolve(p) PROVE IInv'
<1>1. resolved' = resolved \cup {p} /\ UNCHANGED <<row, mem, wallet, loop, todo, unbooked>>
  BY DEF Resolve
<1>2. TypeInv' /\ LoopInv' /\ DealInv'
  BY <1>1 DEF Resolve, IInv, TypeInv, LoopInv, DealInv
<1>4. ASSUME NEW x \in Positions PROVE PositionInv(x)'
  <2>1. PositionInv(x)
    BY ByPosition DEF IInv
  <2> QED
    BY <1>1, <2>1 DEF PositionInv, Pending, CashOf
<1> QED
  BY <1>2, <1>4, FromPositions

LEMMA NextIInv == IInv /\ [Next]_vars => IInv'
<1> SUFFICES ASSUME IInv, [Next]_vars PROVE IInv'
  OBVIOUS
<1>1. CASE Sale
  <2>1. ASSUME NEW p \in Positions, NEW how \in {"monitor", "flatten"}, StartSell(p, how) PROVE IInv'
    BY <2>1, StartSellInv
  <2>2. ASSUME NEW reply \in {"none", "filled", "bare"}, NEW q \in Sizes, NEW px \in Prices,
               Answer(reply, q, px)
        PROVE  IInv'
    <3>1. q \in Nat
      BY <2>2, ExitAssumption DEF Sizes, IInv, TypeInv, Shares
    <3> QED
      BY <2>2, <3>1, AnswerInv
  <2>3. ASSUME NEW w \in Outcomes, LogPartial(w) \/ LogClose(w) PROVE IInv'
    BY <2>3, LogPartialInv, LogCloseInv
  <2> QED
    BY <1>1, <2>1, <2>2, <2>3, UnsoldInv, PartialFillInv, PartialRaisesInv, CloseSoldInv,
       CloseRaisesInv DEF Sale
<1>2. CASE Settlement
  BY <1>2, SettleInv, HealInv DEF Settlement
<1>3. CASE Startup
  BY <1>3, RestartInv, ReconcileSkipInv, ReconcileInv DEF Startup
<1>4. CASE \E p \in Positions : Resolve(p)
  BY <1>4, ResolveInv
<1>5. CASE Crash
  BY <1>5, DieInv DEF Crash
<1>6. CASE UNCHANGED vars
  <2>1. TypeInv' /\ LoopInv' /\ DealInv'
    BY <1>6 DEF vars, IInv, TypeInv, LoopInv, DealInv
  <2>2. \A p \in Positions : PositionInv(p)'
    BY <1>6, ByPosition DEF vars, IInv, PositionInv, Pending, CashOf
  <2> QED
    BY <2>1, <2>2, FromPositions
<1> QED
  BY <1>1, <1>2, <1>3, <1>4, <1>5, <1>6 DEF Next

(* The inductive invariant holds throughout. *)
THEOREM Inductive == Spec => []IInv
BY InitIInv, NextIInv, PTL DEF Spec

(* What is held is never more than memory and the open row say, for any    *)
(* sequence of sales, lost answers, failed writes, deaths and restarts.    *)
THEOREM NothingIsOrphaned == Spec => []NothingOrphaned
BY Inductive, PTL DEF IInv

(* A row closed at a price is of a settled position or of dust.            *)
THEOREM ClosedIsGone == Spec => []ClosedMeansGone
BY Inductive, PTL DEF IInv

(* The recorded result of a closed row is the cash received plus what is   *)
(* left at the exit price, at any price and for any number of fills.       *)
THEOREM BooksAreTheCash == Spec => []BooksMatchCash
BY Inductive, PTL DEF IInv

(* The step behind ClosedIsFinal: a sale in progress is of a row without a *)
(* price, so what finds one is a settlement, and of a resolved position.   *)
LEMMA ClosedStays ==
    IInv /\ [Next]_vars => [\A p \in Positions : row[p].exit # Null =>
          /\ row'[p].status = "closed" /\ row'[p].exit # Null
          /\ row'[p].exit # row[p].exit => mem[p].listed /\ p \in resolved]_vars
<1> DEFINE Stays(p) ==
          /\ row'[p].status = "closed" /\ row'[p].exit # Null
          /\ row'[p].exit # row[p].exit => mem[p].listed /\ p \in resolved
<1> SUFFICES ASSUME IInv, Next, NEW p \in Positions, row[p].exit # Null
             PROVE  Stays(p)
  OBVIOUS
<1>1. /\ row[p].status = "closed" /\ (mem[p].listed => p \in resolved)
      /\ p \notin todo
      /\ pc = "closing" => cur # p
      /\ row \in [Positions -> [status : {"open", "closed"}, shares : Shares, usdc : Money,
                                exit : Money, recorded : Int, late : BOOLEAN]]
  BY DEF IInv, TypeInv, LoopInv, DealInv, RowInv
<1>2. CASE row' = row
  BY <1>1, <1>2
<1>3. ASSUME NEW w \in Outcomes, LogPartial(w) \/ LogClose(w) PROVE Stays(p)
  BY <1>1, <1>3 DEF LogPartial, LogClose
<1>4. ASSUME NEW x \in Positions, NEW w \in Outcomes,
             \/ \E px \in Payouts : MonitorSettle(x, px, w)
             \/ \E wins \in BOOLEAN : WsSettle(x, wins, w)
      PROVE  Stays(p)
  <2>1. PICK px \in Payouts \cup {0, Whole} : mem[x].listed /\ CloseAt(x, px, w)
    BY <1>4 DEF MonitorSettle, WsSettle
  <2>3. px \in Nat
    BY ExitAssumption
  <2>2. px # Null
    BY <2>3
  <2> QED
    BY <1>1, <2>1, <2>2 DEF CloseAt, Closed
<1>5. ASSUME NEW x \in Positions, NEW px \in Payouts, NEW w \in Outcomes, Heal(x, px, w)
      PROVE  Stays(p)
  BY <1>1, <1>5 DEF Heal
<1>6. ASSUME NEW x \in Positions, NEW w \in Outcomes,
             ReconcileSilent(x, w) \/ \E px \in Payouts : ReconcileResolved(x, px, w)
      PROVE  Stays(p)
  BY <1>1, <1>6 DEF ReconcileResolved, ReconcileSilent, CloseAt, Closed
<1>7. \/ row' = row
      \/ \E w \in Outcomes : LogPartial(w) \/ LogClose(w)
      \/ Settlement
      \/ \E x \in Positions, w \in Outcomes :
            ReconcileSilent(x, w) \/ \E px \in Payouts : ReconcileResolved(x, px, w)
  <2>1. Sale => row' = row \/ \E w \in Outcomes : LogPartial(w) \/ LogClose(w)
    BY DEF Sale, StartSell, Answer, Unsold, PartialFill, PartialRaises, CloseSold, CloseRaises
  <2>2. Startup => \/ row' = row
                   \/ \E x \in Positions, w \in Outcomes :
                         ReconcileSilent(x, w) \/ \E px \in Payouts : ReconcileResolved(x, px, w)
    BY DEF Startup, Restart, ReconcileSkip
  <2>3. (\E x \in Positions : Resolve(x)) => row' = row
    BY DEF Resolve
  <2>4. Crash => row' = row
    BY DEF Crash
  <2> QED
    BY <2>1, <2>2, <2>3, <2>4 DEF Next
<1>8. Settlement => Stays(p)
  BY <1>4, <1>5 DEF Settlement
<1> QED
  BY <1>2, <1>3, <1>6, <1>7, <1>8

(* A row closed at a price is not reopened and keeps a price, and only a   *)
(* settlement of a position memory still lists writes another one.         *)
THEOREM ClosedStaysClosed == Spec => ClosedIsFinal
<1>1. Spec => []IInv
  BY Inductive
<1> QED
  BY <1>1, ClosedStays, PTL DEF Spec, ClosedIsFinal

=============================================================================

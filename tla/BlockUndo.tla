------------------------------- MODULE BlockUndo -------------------------------
(***************************************************************************)
(* What a block does to the coins and how its undo record takes it back:   *)
(* UpdateCoins, ConnectBlock, ApplyTxInUndo and DisconnectBlock of         *)
(* main.cpp, as operators on a map from transaction ids to CCoins.         *)
(*                                                                         *)
(* Amounts, scripts and versions of outputs are left out; an output is its *)
(* index.  Transactions are numbered by their hash.                        *)
(***************************************************************************)
EXTENDS Integers, SequencesExt

CONSTANTS
    Tx,         \* transaction ids
    Ins,        \* vin of each: a sequence of outpoints <<tx, index>>
    Outs,       \* number of outputs of each
    CoinBase,   \* the coinbase transactions
    Unsound,    \* those whose scripts fail
    Maturity,   \* COINBASE_MATURITY
    Block, Genesis, Parent, Height,
    Body        \* vtx of each block, the coinbase first

ASSUME TxAssumption ==
    /\ Tx \subseteq Nat /\ CoinBase \subseteq Tx /\ Unsound \subseteq Tx
    /\ Outs \in [Tx -> Nat \ {0}]
    /\ DOMAIN Ins = Tx
    /\ \A t \in Tx : /\ Ins[t] \in Seq(Tx \X Nat)
                     /\ t \in CoinBase <=> Ins[t] = <<>>
                     /\ \A i, j \in DOMAIN Ins[t] : Ins[t][i] = Ins[t][j] => i = j
    /\ Maturity \in Nat
    /\ Genesis \in Block /\ Parent \in [Block \ {Genesis} -> Block]
    /\ Height \in [Block -> Nat] /\ Height[Genesis] = 0
    /\ \A b \in Block \ {Genesis} : Height[b] = Height[Parent[b]] + 1
    /\ DOMAIN Body = Block \ {Genesis}
    /\ \A b \in Block \ {Genesis} : /\ Body[b] \in Seq(Tx) /\ Body[b] # <<>>
                                    /\ \A i \in DOMAIN Body[b] : Body[b][i] \in CoinBase <=> i = 1

Inputs(t) == Range(Ins[t])
Prevs(t)  == {o[1] : o \in Inputs(t)}

\* CCoins: the outputs that are unspent, fCoinBase and nHeight
NoCoins   == [out |-> {}, cb |-> FALSE, height |-> 0]
CoinsType == [out : SUBSET Nat, cb : BOOLEAN, height : Nat]
FromTx(t, height) == [out |-> 0 .. (Outs[t] - 1), cb |-> t \in CoinBase, height |-> height]

Available(coins, o) == o[2] \in coins[o[1]].out

\* CCoins::Spend, with Cleanup
Spend(coins, o) ==
    LET rest == coins[o[1]].out \ {o[2]}
    IN  [coins EXCEPT ![o[1]] = IF rest = {} THEN NoCoins ELSE [@ EXCEPT !.out = rest]]

OrdinaryMeta(c) == [height |-> c.height, cb |-> FALSE]  \* mutant: fCoinBase is not recorded

\* CTxInUndo: height and fCoinBase go into the record of the last output spent
Meta(c) == [height |-> c.height, cb |-> c.cb]

SpendInput(acc, o) ==
    LET spent == Spend(acc.coins, o)
        last  == spent[o[1]].out = {}
    IN  [coins |-> spent,
         undo  |-> Append(acc.undo, IF last THEN Meta(acc.coins[o[1]])
                                            ELSE [height |-> 0, cb |-> FALSE])]

\* the coins after a transaction, and its CTxUndo
UpdateCoins(coins, t, height) ==
    LET spent == FoldLeft(SpendInput, [coins |-> coins, undo |-> <<>>], Ins[t])
    IN  [spent EXCEPT !.coins[t] = FromTx(t, height)]

\* CheckInputs and HaveInputs at a given height
Immature(c, height) == c.cb /\ height - c.height < Maturity
InputsGood(coins, t, height) ==
    /\ \A o \in Inputs(t) : Available(coins, o) /\ ~Immature(coins[o[1]], height)
    /\ t \notin Unsound

ConnectTx(acc, t, height) ==
    IF acc.ok /\ InputsGood(acc.coins, t, height)
    THEN LET u == UpdateCoins(acc.coins, t, height)
         IN  [ok |-> TRUE, coins |-> u.coins, undo |-> Append(acc.undo, u.undo)]
    ELSE [acc EXCEPT !.ok = FALSE]

\* BIP30: a transaction of the block has outputs that are not spent
Overwrites(coins, b) == \E t \in Range(Body[b]) : coins[t].out # {}

(***************************************************************************)
(* ConnectBlock: BIP30 first, then the transactions one after the other,   *)
(* each on the coins that the ones before it left.                         *)
(***************************************************************************)
ConnectBlock(coins, b) ==
    FoldLeft(LAMBDA acc, t : ConnectTx(acc, t, Height[b]),
             [ok |-> ~Overwrites(coins, b), coins |-> coins, undo |-> <<>>], Body[b])

\* ApplyTxInUndo, with its verdict in clean
ApplyTxInUndo(acc, undo, o) ==
    LET c     == acc.coins[o[1]]
        fresh == IF undo.height # 0 THEN [out |-> {}, cb |-> undo.cb, height |-> undo.height] ELSE c
        clean == /\ IF undo.height # 0 THEN c.out = {} ELSE c.out # {}
                 /\ o[2] \notin fresh.out
    IN  [coins |-> [acc.coins EXCEPT ![o[1]] = [fresh EXCEPT !.out = @ \cup {o[2]}]],
         clean |-> acc.clean /\ clean]

Backwards(seq) == Reverse(seq)

\* the outputs of a transaction go
TakeBack(acc, t, height) ==
    [coins |-> [acc.coins EXCEPT ![t] = NoCoins],
     clean |-> acc.clean /\ acc.coins[t] = FromTx(t, height)]

\* one transaction of DisconnectBlock: its outputs go, its inputs come back, last first
UndoTx(acc, t, height, txundo) ==
    FoldLeft(LAMBDA a, j : ApplyTxInUndo(a, txundo[j], Ins[t][j]),
             TakeBack(acc, t, height), Backwards([j \in DOMAIN Ins[t] |-> j]))

DisconnectBlock(coins, b, undo) ==
    FoldLeft(LAMBDA acc, i : UndoTx(acc, Body[b][i], Height[b], undo[i]),
             [coins |-> coins, clean |-> TRUE], Backwards([i \in DOMAIN Body[b] |-> i]))

(***************************************************************************)
(* What the coins are, said without blocks being applied: the outputs of   *)
(* the transactions of a chain that no transaction of it spends.  One that *)
(* is in the chain twice, as BIP30 allows when its outputs are all spent,  *)
(* counts where it is last, and only what is spent from there on.          *)
(***************************************************************************)
Unspent(chain) ==
    LET heights(t) == {Height[b] : b \in {c \in Range(chain) : t \in Range(Body[c])}}
        since(h)   == UNION {Range(Body[b]) : b \in {c \in Range(chain) : Height[c] >= h}}
        left(t)    == {n \in 0 .. (Outs[t] - 1) :
                          \A u \in since(Max(heights(t))) : <<t, n>> \notin Inputs(u)}
    IN  [t \in Tx |->
            IF heights(t) # {} /\ left(t) # {}
            THEN [out |-> left(t), cb |-> t \in CoinBase, height |-> Max(heights(t))]
            ELSE NoCoins]
===============================================================================

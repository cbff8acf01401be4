----------------------------- MODULE Reconcile -----------------------------
(***************************************************************************)
(* acctExport --accounting [--tokens]: one statement per appearance of an  *)
(* account.  The node knows balances per block only, so a statement is     *)
(* reconciled from the transaction alone, then from its traces, and then,  *)
(* when the neighbouring appearances are in the same block, from the       *)
(* statement before it.                                                    *)
(*                                                                         *)
(* A transaction is what it does to the account (val, tok) and what the    *)
(* code can see of it: `top' is the sum of the transaction's own values    *)
(* (value in or out, rewards, gas), `trc' the same sum with the values of  *)
(* its traces in place of the transaction's.  They differ from val where   *)
(* value moves inside the transaction, and where a trace shows a value     *)
(* that does not move (a delegatecall repeats its caller's).               *)
(***************************************************************************)
EXTENDS Integers, Sequences

CONSTANTS
    Exports,     \* the exports there are: of accounts with which kinds of transactions;
                 \* windows: first_record may be other than 0, max_records given;
                 \* filters: --fourbyte, --first_block, --last_block leave some out
    LastBlock,   \* blocks 0 .. LastBlock; block 0 holds the prefunds
    MaxTxs       \* bound on the appearances of an account

Kind == [top : Int, trc : Int, val : Int, tok : Int, log : BOOLEAN]

ASSUME ReconcileConstants ==
    /\ Exports \subseteq [kinds : SUBSET Kind, windows : BOOLEAN, filters : BOOLEAN]
    /\ \A e \in Exports : \A k \in e.kinds : k.tok # 0 => k.log
    /\ LastBlock \in Nat \ {0} /\ MaxTxs \in Nat \ {0}

VARIABLES
    how,           \* which of the exports this is
    txs,           \* the transactions of the account, oldest first, as on the chain
    firstRecord,   \* first_record
    maxRecords,    \* max_records
    travIndex,     \* CTraverser::index, from 1; 0 before acct_Pre
    eth,           \* prevStatements[accountedFor + "_eth"]
    tok,           \* prevStatements[accountedFor + "_" + token].endBal
    stmts,         \* the ether statements made, with the place of their transaction
    tstmts         \* the token statements made

acctVars == <<how, txs, firstRecord, maxRecords, travIndex, eth, tok, stmts, tstmts>>

NoneAfter == LastBlock + 10     \* NOPOS: a block that no appearance is in

----------------------------------------------------------------------------
\* The first n of the numbers f, added up.
Total(f, n) ==
    LET upTo[j \in 0 .. Len(f)] == IF j = 0 THEN 0 ELSE upTo[j - 1] + f[j]
    IN  upTo[n]

\* The node's answers: getBalanceAt and getTokenBalanceOf, at the end of a block.
BalanceAt(b) ==
    Total([i \in DOMAIN txs |-> IF txs[i].blk <= b THEN txs[i].val ELSE 0], Len(txs))
TokenAt(b) ==
    Total([i \in DOMAIN txs |-> IF txs[i].blk <= b THEN txs[i].tok ELSE 0], Len(txs))

\* The histories a chain can have: in order, never below zero, and a prefund
\* is the only thing that happens to an account in block 0.
Chains(kinds) ==
    LET Tx == {[blk |-> b, top |-> k.top, trc |-> k.trc, val |-> k.val, tok |-> k.tok,
                log |-> k.log] : b \in 0 .. LastBlock, k \in kinds}
        Prefund(t) == t.val > 0 /\ t.top = t.val /\ t.trc = t.val /\ ~t.log
        Covered(f) == \A n \in DOMAIN f : Total(f, n) >= 0
    IN {s \in UNION {[1 .. n -> Tx] : n \in 1 .. MaxTxs} :
          /\ \A i, j \in DOMAIN s : i < j => s[i].blk <= s[j].blk /\ s[j].blk > 0
          /\ s[1].blk = 0 => Prefund(s[1])
          /\ Covered([i \in DOMAIN s |-> s[i].val])
          /\ Covered([i \in DOMAIN s |-> s[i].tok])}

\* options.apps: the window that loadAllAppearances cuts out.
apps == SubSeq(txs, firstRecord + 1,
               IF firstRecord + maxRecords < Len(txs) THEN firstRecord + maxRecords ELSE Len(txs))

\* A CReconciliation of which only the balance at the end of a block is known.
Known(block, balance) == [blockNumber |-> block, begBal |-> 0, endBal |-> balance,
                          endBalCalc |-> 0, amountNet |-> 0, reconciled |-> FALSE]
NoStatement == Known(0, 0)

AcctInit ==
    /\ how \in Exports
    /\ txs \in Chains(how.kinds)
    /\ firstRecord \in (IF how.windows THEN 0 .. Len(txs) - 1 ELSE {0})
    /\ maxRecords \in (IF how.windows THEN 1 .. MaxTxs ELSE {MaxTxs})
    /\ travIndex = 0
    /\ eth = NoStatement /\ tok = 0
    /\ stmts = << >> /\ tstmts = << >>

\* acct_Pre: a window that does not start at the first record starts from the
\* balance before the block of its first appearance; tokens start from nothing.
acct_Pre ==
    /\ travIndex = 0
    /\ travIndex' = 1
    /\ eth' = IF firstRecord = 0 THEN eth
              ELSE Known(apps[1].blk - 1, BalanceAt(apps[1].blk - 1))
    /\ UNCHANGED <<how, txs, firstRecord, maxRecords, tok, stmts, tstmts>>

----------------------------------------------------------------------------
\* A statement of t from its two balances and the calculated one.
Statement(t, beg, end, calc, begDiff) ==
    LET ok == begDiff = 0 /\ end = calc
    IN [blockNumber |-> t.blk, begBal |-> beg, endBal |-> end, endBalCalc |-> calc,
        amountNet |-> IF ok THEN end - beg ELSE 0, reconciled |-> ok]

\* Case 1: the transaction's own values against the node's balances.  The test
\* for block zero (`trans - blockNumber == 0') is on a pointer: it never holds.
topLine(t, prev) ==
    LET beg == BalanceAt(IF t.blk = 0 THEN 0 ELSE t.blk - 1)
    IN Statement(t, beg, BalanceAt(t.blk), beg + t.top, beg - prev.endBal)

\* Case 4: the same balances, the values of the traces; here block zero is one.
reconcileUsingTraces(t, prev) ==
    LET beg == IF t.blk = 0 THEN 0 ELSE BalanceAt(t.blk - 1)
    IN Statement(t, beg, BalanceAt(t.blk), beg + t.trc,
                 IF t.blk = 0 THEN 0 ELSE beg - prev.endBal)

\* Case 2: neighbours in the same block.  The values are those of the traces,
\* reconcileUsingTraces has overwritten the others.
sameBlock(t, prev, next) ==
    LET prevDifferent == prev.blockNumber # t.blk
        nextDifferent == t.blk # next
        beg == IF prevDifferent THEN topLine(t, prev).begBal ELSE prev.endBalCalc
        begDiff == IF prevDifferent /\ t.blk # 0 THEN beg - prev.endBal ELSE 0
        calc == beg + t.trc
    IN CASE prevDifferent /\ nextDifferent -> reconcileUsingTraces(t, prev)
         [] prevDifferent /\ ~nextDifferent -> Statement(t, beg, calc, calc, begDiff)
         [] ~prevDifferent /\ nextDifferent -> Statement(t, beg, BalanceAt(t.blk), calc, begDiff)
         [] OTHER -> Statement(t, beg, calc, calc, begDiff)

\* A plausible slip: begBalDiff left out of what reconciles at the top level.
reconcileEthLoose(t, prev, next) ==
    LET top == topLine(t, prev)
    IN IF top.endBal = top.endBalCalc
       THEN [top EXCEPT !.reconciled = TRUE, !.amountNet = top.endBal - top.begBal]
       ELSE sameBlock(t, prev, next)

\* CReconciliation::reconcileEth.
reconcileEth(t, prev, next) ==
    LET top == topLine(t, prev)
        trc == reconcileUsingTraces(t, prev)
    IN IF top.reconciled THEN top
       ELSE IF trc.reconciled THEN trc
       ELSE sameBlock(t, prev, next)

\* The token half of process_reconciliation: from the last known balance to
\* that of the node, always said to be reconciled, kept if it is not zero.
tokenStatement(t) ==
    LET end == TokenAt(t.blk)
    IN [blockNumber |-> t.blk, begBal |-> tok, endBal |-> end, amountNet |-> end - tok]

\* A plausible slip: the balance of the token is not remembered.
process_reconciliationForgets(t, next) ==
    LET nums == reconcileEth(t, eth, next)
    IN /\ eth' = nums
       /\ stmts' = Append(stmts, [tx |-> firstRecord + travIndex, nums |-> nums])
       /\ tstmts' = IF t.log THEN Append(tstmts, tokenStatement(t)) ELSE tstmts
       /\ UNCHANGED tok

\* process_reconciliation: the statements of a transaction, and what the next
\* one will start from.
process_reconciliation(t, next) ==
    LET nums == reconcileEth(t, eth, next)
        tnum == tokenStatement(t)
    IN /\ eth' = nums
       /\ stmts' = Append(stmts, [tx |-> firstRecord + travIndex, nums |-> nums])
       /\ tok' = IF t.log THEN tnum.endBal ELSE tok
       /\ tstmts' = IF t.log /\ tnum.amountNet # 0 THEN Append(tstmts, tnum) ELSE tstmts

\* acct_Display, for an appearance that passes the filters; the appearance
\* after it is the next of the window, whether that one passes them or not.
acct_Display ==
    /\ travIndex \in DOMAIN apps
    /\ process_reconciliation(apps[travIndex],
           IF travIndex < Len(apps) THEN apps[travIndex + 1].blk ELSE NoneAfter)
    /\ travIndex' = travIndex + 1
    /\ UNCHANGED <<how, txs, firstRecord, maxRecords>>

\* An appearance that tsRangeFunc or fourByteFilter leaves out.
Skip ==
    /\ how.filters
    /\ travIndex \in DOMAIN apps
    /\ travIndex' = travIndex + 1
    /\ UNCHANGED <<how, txs, firstRecord, maxRecords, eth, tok, stmts, tstmts>>

AcctNext == acct_Pre \/ acct_Display \/ Skip

AcctSpec == AcctInit /\ [][AcctNext]_acctVars

----------------------------------------------------------------------------
\* Statements and positions are of their types, and a statement is made for
\* every appearance passed but the ones that were left out.
AcctTypeOK ==
    /\ travIndex \in 0 .. Len(apps) + 1
    /\ eth \in [blockNumber : Int, begBal : Int, endBal : Int, endBalCalc : Int,
                amountNet : Int, reconciled : BOOLEAN]
    /\ tok \in Int
    /\ Len(stmts) <= travIndex /\ Len(tstmts) <= Len(stmts)
    /\ how.filters \/ travIndex = 0 \/ Len(stmts) = travIndex - 1

\* reconcileEth: every statement of an account is reconciled.
\* The code does not keep this of windows and filters: README, section 5.
AllReconcile == \A i \in DOMAIN stmts : stmts[i].nums.reconciled

\* The transactions show all they do.
ShowAll == \A i \in DOMAIN txs : txs[i].top = txs[i].val /\ txs[i].trc = txs[i].val

\* A window that ends after the first i appearances takes a block in part.
CutsBlock(i) == i \in 1 .. Len(txs) - 1 /\ txs[i].blk = txs[i + 1].blk

\* All statements are reconciled, however many of them there are in a block, of an account
\* whose transactions show all they do, and of a window that takes no block in part:
\* acct_Pre has given it the balance to start from.
WholeBlocksReconcile ==
    ShowAll /\ ~how.filters /\ ~CutsBlock(firstRecord) /\ ~CutsBlock(firstRecord + Len(apps))
        => AllReconcile

\* reconcileEth: a statement that is said to be reconciled tells what its
\* transaction did to the account.
\* The code does not keep this: README, section 5.
NetIsTrue == \A i \in DOMAIN stmts :
                 stmts[i].nums.reconciled => stmts[i].nums.amountNet = txs[stmts[i].tx].val

Nets(n) == Total([i \in DOMAIN stmts |-> stmts[i].nums.amountNet], n)

\* Whatever the transactions show, when every statement up to the end of a block is
\* reconciled, the nets add up to the balance of the account.  One wrong statement is made
\* up for by another of its block, or is flagged.
NetsAddUp ==
    ~how.windows /\ ~how.filters =>
        \A n \in DOMAIN stmts :
            ( /\ \A i \in 1 .. n : stmts[i].nums.reconciled
              /\ \/ stmts[n].tx = Len(txs)
                 \/ txs[stmts[n].tx + 1].blk # stmts[n].nums.blockNumber )
            => Nets(n) = BalanceAt(stmts[n].nums.blockNumber)

\* reconcileEth: as long as no statement is flagged, the nets add up to the balance,
\* whatever the transactions show; and none is flagged of an account whose transactions
\* show all they do, for a window that takes no block in part.
BooksBalance == AcctTypeOK /\ WholeBlocksReconcile /\ NetsAddUp

\* process_reconciliation: the nets of the tokens' statements add up to what the
\* account's tokens changed by since the appearances that are exported begin, also when
\* some of them are left out.
TokensAddUp ==
    ~how.windows =>
        \A n \in DOMAIN tstmts :
            Total([i \in DOMAIN tstmts |-> tstmts[i].amountNet], n)
                = TokenAt(tstmts[n].blockNumber) - TokenAt(apps[1].blk - 1)
=============================================================================

---------------------------- MODULE MCAlgorithms ----------------------------
(***************************************************************************)
(* The sequential algorithms for TLC, each on all inputs within bounds:    *)
(* the cutting of a stage and the reconciliation of an account.  A         *)
(* behaviour of this module is a run of one of them: there is no account,  *)
(* or the stage is empty and has been cut.                                 *)
(***************************************************************************)
EXTENDS Chunking, Reconcile, TLC

\* Every stage of up to four blocks out of four, of one to three records.
MCWeight == <<2, 1, 3>> @@ (0 :> 1)

OfKind(top, trc, val, t) == [top |-> top, trc |-> trc, val |-> val, tok |-> t, log |-> t # 0]

\* Transactions that show all they do; ones whose value moves inside them, where only the
\* traces show it; and ones whose traces repeat a value that does not move.
Plain == {OfKind(v, v, v, 0) : v \in {-1, 0, 1, 2}}
Internal == {OfKind(0, v, v, 0) : v \in {-1, 1}}
Delegates == {OfKind(v, 0, v, 0) : v \in {-1, 1}}

\* Transactions of a token.
Tokens == {OfKind(1, 1, 1, 0)} \cup {OfKind(0, 0, 0, v) : v \in {-1, 1, 2}}
            \cup {[OfKind(0, 0, 0, 0) EXCEPT !.log = TRUE]}

\* Windows of accounts that show all they do; other accounts from their first appearance
\* to their last; and tokens, with filters.
MCExports ==
    {[kinds |-> Plain, windows |-> TRUE, filters |-> FALSE],
     [kinds |-> Plain \cup Internal \cup Delegates, windows |-> FALSE, filters |-> FALSE],
     [kinds |-> Tokens, windows |-> FALSE, filters |-> TRUE]}

-----------------------------------------------------------------------------
NoStage ==
    /\ blocks = << >> /\ chunkSize = 0 /\ lines = << >> /\ record = 0
    /\ prvBlock = NoBlock /\ loc = 0 /\ step = "done"
    /\ consolidatedLines = << >> /\ remainingLines = << >>
NoAccount ==
    /\ how = [kinds |-> {}, windows |-> TRUE, filters |-> TRUE]
    /\ txs = << >> /\ firstRecord = 0 /\ maxRecords = 1 /\ travIndex = 1
    /\ eth = NoStatement /\ tok = 0 /\ stmts = << >> /\ tstmts = << >>

AlgInit ==
    \/ CutInit /\ NoAccount
    \/ AcctInit /\ NoStage

AlgNext ==
    \/ CutNext /\ UNCHANGED acctVars
    \/ AcctNext /\ UNCHANGED cutVars

AlgSpec == AlgInit /\ [][AlgNext]_<<cutVars, acctVars>>
=============================================================================

---------------------------- MODULE ReceiptMode ----------------------------
(***************************************************************************)
(* --receipt (src/verify/receipts.go, Receipt): one receipt, and at most   *)
(* two bundles, which are taken for the receipt's stream or its decision   *)
(* log by what their manifests say.  registry and log are the views found  *)
(* so far, and Nothing while there is none.                                *)
(***************************************************************************)
EXTENDS Reconcile

VARIABLES
    targets,    \* the bundles still to be verified
    subject     \* whether the records the receipt names were checked

receiptVars == <<reconcileVars, targets, subject>>

TheReceipt == receipts[1]

\* A bundle that was not given: it is nobody's, and holds nothing.
Nothing == [publicId |-> None, logFor |-> None, from |-> 1, to |-> 0,
            events |-> <<>>, checkpoints |-> <<>>, anchoredAt |-> NoTime]

\* The receipt is not there, or a bundle cannot be read: no verdict here either.
InputUnreadable ==
    /\ \/ rule = "receipt"
       \/ rule = "targets" /\ targets # <<>>
    /\ Step(rule, "error", <<>>)
    /\ UNCHANGED <<read, targets, subject>>

\* readReceiptDocument comes first: a file that is no receipt has failed, and
\* the bundles are verified all the same.
ReadReceipt ==
    /\ Step("receipt", "targets", If(~TheReceipt.document, Failed("RECEIPT_SHAPE")))
    /\ UNCHANGED <<read, targets, subject>>

\* Every bundle is verified; one that fails is not looked at further.
TargetFails ==
    /\ targets # <<>> /\ targets' = Tail(targets)
    /\ \E result \in Results : Step("targets", "targets", <<BundleFails(result)>>)
    /\ UNCHANGED <<read, subject>>

IsReceiptsLog(bundle) == TheReceipt.document /\ bundle.logFor = TheReceipt.stream
IsReceiptsStream(bundle) == TheReceipt.document /\ bundle.publicId = TheReceipt.stream

\* A bundle of neither ends the run without a verdict ("error").
TargetVerifies ==
    /\ rule = "targets" /\ targets # <<>> /\ targets' = Tail(targets)
    /\ LET bundle == Head(targets) IN
       \/ /\ IsReceiptsLog(bundle)
          /\ log' = bundle /\ UNCHANGED <<registry, rule>>
       \/ /\ ~IsReceiptsLog(bundle) /\ IsReceiptsStream(bundle)
          /\ registry' = bundle /\ UNCHANGED <<log, rule>>
       \/ /\ ~IsReceiptsLog(bundle) /\ ~IsReceiptsStream(bundle)
          /\ rule' = "error" /\ UNCHANGED <<registry, log>>
    /\ UNCHANGED <<receipts, receiptKeys, results, reason, unconfirmedReason,
                   read, next, subject>>

\* The receipt on its own, and against the records when it holds on its own;
\* given says whether there were any bundles.
JudgeReceipt(given) ==
    LET own == IF TheReceipt.document THEN CheckReceipt(TheReceipt, receiptKeys) ELSE <<>>
        compared == given /\ TheReceipt.document /\ own = <<>>
        against == CheckSubject(TheReceipt, registry, log)
    IN /\ targets = <<>>
       /\ Step("targets", "judged", own \o IF compared THEN against.findings ELSE <<>>)
       /\ subject' = IF compared /\ against.checked THEN "checked" ELSE "not_checked"
       /\ UNCHANGED <<read, targets>>
=============================================================================

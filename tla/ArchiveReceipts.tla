-------------------------- MODULE ArchiveReceipts --------------------------
(***************************************************************************)
(* The receipts of an answer: for each key the answer lists as current,    *)
(* which of the claims it carries under that key is certified as the       *)
(* answer, and what a verifier that holds only the answer checks again.    *)
(*                                                                         *)
(* Digests, texts, evidence and paths are copied into a receipt from the   *)
(* answer it is verified against; what remains are the decisions.  Every   *)
(* answer fixes its validity clock, here the present.                      *)
(***************************************************************************)
EXTENDS ArchivePacks

StatusOf(c) == Status(versions, claims, c, clock)
InForce(c)  == clock \in ValidAt[c.value]

\* build_proof: whatever the answer carries under the key, wherever it lists it.
Entries(r, key) == {c \in Shown(r) : c.key = key}

\* Faulty: the claim that is in force, current or not.
PrimaryInForce(entries) ==
    LET valid == {c \in entries : InForce(c)}
    IN  IF valid # {} THEN valid ELSE entries

\* _claim_in_force: the entries that may be named, the first by id being any of them.
\* (Its rule for as_of comes after these and is not reached: a claim that is listed as
\* current is in force.)
Primary(entries) ==
    LET now   == {c \in entries : StatusOf(c) = "CURRENT"}
        valid == {c \in entries : InForce(c)}
    IN  IF valid \cap now # {} THEN valid \cap now
        ELSE IF valid # {} THEN valid
        ELSE IF now # {} THEN now ELSE entries

\* build_receipt.
ReceiptFor(r, key) ==
    {[claim |-> c, entries |-> Entries(r, key)] : c \in Primary(Entries(r, key))}

\* receipt_for_response: one for each key of a claim listed as current.
Receipts(r) == UNION {ReceiptFor(r, key) : key \in {c.key : c \in r.current}}

\* verify, of the proof a receipt carries.
ProofVerifies(entries, r) ==
    /\ entries \subseteq Shown(r)
    /\ \A c \in entries :
         StatusOf(c) = "CURRENT" => ~\E d \in Shown(r) \ {c} : d.target = ClaimId(c)

\* verify_receipt.
Verifies(receipt, r) ==
    /\ ProofVerifies(receipt.entries, r)
    /\ receipt.claim \in Shown(r)
    /\ InForce(receipt.claim)

-----------------------------------------------------------------------------
(* Properties *)

\* Whatever selectors, withholding and budget left of an answer, each receipt issued
\* with it passes the verifier that is handed nothing but that answer.
HonestReceiptsVerify ==
    Quiet => \A a \in Answers :
        \A receipt \in Receipts(a.response) : Verifies(receipt, a.response)

\* "The receipt must name the answer Verilore would have given AT THIS INSTANT": where
\* the answer lists an undisputed claim, the claim its receipt names is live as well,
\* and says the same.  (Of a disputed claim that is listed because the other side was
\* withheld this is not so: Primary may then name one that was replaced.)
ReceiptsNameTheAnswer ==
    Quiet => \A a \in Answers :
        \A receipt \in Receipts(a.response), c \in a.response.current :
            c.key = receipt.claim.key /\ StatusOf(c) = "CURRENT"
                => receipt.claim \in Current /\ receipt.claim.value = c.value

=============================================================================

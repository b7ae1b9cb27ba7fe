----------------------------- MODULE MCLeadIngest -----------------------------
(***************************************************************************)
(* An import whose five rows repeat an address, spell it otherwise, hold a *)
(* malformed one and a new one; a single and a raw request for the same    *)
(* addresses; and an import with a row too many.                           *)
(***************************************************************************)
EXTENDS LeadIngest, TLC

CONSTANTS single, import, raw, huge, \* requests
          a, b, A                    \* addresses, and another spelling of a

MCRequests  == {single, import, raw, huge}
MCAddresses == {a, b}
MCVariants  == {A}
MCStored    == (a :> a) @@ (b :> b) @@ (A :> a)
MCKind == (single :> "single") @@ (import :> "bulk") @@ (raw :> "raw") @@ (huge :> "bulk")
MCRows ==
    (single :> <<a>>) @@ (import :> <<a, A, Malformed, a, b>>) @@ (raw :> <<b>>)
    @@ (huge :> <<a, b, a, b, a, b>>)
=============================================================================

----------------------------- MODULE Detection -----------------------------
(***************************************************************************)
(* The detectors of scanner.rs.  A text is a sequence of tokens: an e-mail *)
(* address, a phone number, a word...  and the gaps between them, each one *)
(* character that belongs to neither.  The regular expressions are         *)
(* modelled by which tokens they match: a whole-value detector the text    *)
(* that is one token, a span detector tokens between gaps.                 *)
(***************************************************************************)
EXTENDS Naturals, SequencesExt

\* PiiType, by the name of the strategy that replaces it.  "word" is everything
\* else, a number that fails the Luhn check among them; "long" is a number of more
\* digits than serde_json keeps, "rounded" what it prints for one.
PiiTypes   == {"email", "credit_card", "ssn", "ip", "dob", "phone", "passport"}
TokenKinds == PiiTypes \cup {"word", "gap", "long"}

\* A token is the data's own or a stand-in that iron-veil has generated.
Token(kind) == [kind |-> kind, fake |-> FALSE]
Fake(kind)  == [kind |-> kind, fake |-> TRUE]
Gap         == Token("gap")

\* scan_allowed: at most one detector matches, since no token looks like two.
Detected(text, allowed) == Len(text) = 1 /\ text[1].kind \in allowed

\* phone_span_regex takes in the character on either side of a number, so the gap
\* that ends one match is not there to begin the next.
PhoneSpans(text) ==
    LET matched[i \in 1..Len(text)] ==
            /\ text[i].kind = "phone"
            /\ i = 1 \/ (text[i - 1].kind = "gap" /\ (i > 2 => ~matched[i - 2]))
    IN {i \in DOMAIN text : matched[i]}

\* mask_text_spans: every address, and the numbers matched from left to right.
Spans(text, allowed) ==
    {i \in DOMAIN text : text[i].kind = "email" /\ "email" \in allowed}
    \cup IF "phone" \in allowed THEN PhoneSpans(text) ELSE {}

MaskSpans(text, allowed) ==
    [i \in DOMAIN text |->
        IF i \in Spans(text, allowed) THEN Fake(text[i].kind) ELSE text[i]]
=============================================================================

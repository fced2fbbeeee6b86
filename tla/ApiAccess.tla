----------------------------- MODULE ApiAccess -----------------------------
(***************************************************************************)
(* Who may use the management API: api_auth in front of every protected    *)
(* route, against the credentials of the live policy.                      *)
(*                                                                         *)
(* A caller is where it calls from and what it offers: a key and a token,  *)
(* each of them absent, right or wrong (for the token, expired too).       *)
(***************************************************************************)
EXTENDS Launch

Callers == [from : {"host", "network"}, key : {"none", "right", "wrong"},
            token : {"none", "right", "wrong"}]

\* The listener's address decides who reaches it.
Reaches(caller) == api \in {"loopback", "everywhere"} /\ (caller.from = "network" => api = "everywhere")

\* A key that is asked for and offered decides alone; so does a token after it.
\* "api_key.is_none() && jwt_secret.is_none()" lets everyone in.
Allows_EitherMissing(credentials, caller) ==
    \/ {"key", "token"} \ credentials # {}
    \/ "key" \in credentials /\ caller.key = "right"
Allows(credentials, caller) ==
    \/ credentials = {}
    \/ "key" \in credentials /\ caller.key = "right"
    \/ /\ "key" \in credentials => caller.key = "none"
       /\ "token" \in credentials
       /\ caller.token = "right"

\* A caller that shows no right credential.
Stranger(caller) == "right" \notin {caller.key, caller.token}
=============================================================================

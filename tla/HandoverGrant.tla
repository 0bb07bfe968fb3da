---------------------------- MODULE HandoverGrant ----------------------------
(***************************************************************************)
(* The receiver's right to confirm one delivery (orchestration/handover/   *)
(* capability.py and service.py, api/v1/endpoints/handover.py).  The       *)
(* driver's screen shows a series of codes, one token each; a receiver's   *)
(* browser opens a token, is bound to it by a cookie, may have an identity *)
(* check extend it, and confirms once.                                     *)
(*                                                                         *)
(* Requests run as READ COMMITTED transactions, so a step here is one      *)
(* statement where a request acts later on what it has read.  Rotations    *)
(* hold the trip's lock and so run one at a time; the public requests do   *)
(* not take it.  A redemption keeps its token's row locked until it is     *)
(* recorded or rolled back, across the upload of the signature.            *)
(***************************************************************************)
EXTENDS Integers, Sequences, FiniteSets

CONSTANTS
  Browsers,    \* browsers that can present a code, the receiver's among them
  NoBrowser,
  MaxTokens    \* bound: tokens of the series

ASSUME GrantAssumption == NoBrowser \notin Browsers /\ MaxTokens \in Nat

VARIABLES
  tokens,        \* handover_capability_tokens of one phase event, oldest first
  confirmation,  \* the handover_confirmations row, at most one
  rotation,      \* the driver's request for the next code
  request,       \* what each browser has under way
  cookie         \* the token whose secret each browser holds, or 0

vars == <<tokens, confirmation, rotation, request, cookie>>

NoToken == 0
Token == [live : BOOLEAN,                        \* expires_at > now
          opened_by : Browsers \union {NoBrowser},
          redeemed : BOOLEAN, asked : BOOLEAN, extended : BOOLEAN]
NoConfirmation == [token |-> NoToken, browser |-> NoBrowser]

Fresh == [live |-> TRUE, opened_by |-> NoBrowser, redeemed |-> FALSE,
          asked |-> FALSE, extended |-> FALSE]
-----------------------------------------------------------------------------
(* Plausible slips, for the mutation check of the runs.                    *)

TokenKept == [op |-> "none", token |-> 1]
AnySecret(b, t) == TRUE
OnlyUnopened == [t \in DOMAIN tokens |->
  IF tokens[t].opened_by = NoBrowser THEN [tokens[t] EXCEPT !.live = FALSE] ELSE tokens[t]]
-----------------------------------------------------------------------------
Ended == [op |-> "none", token |-> NoToken]

Redeemable(t) == tokens[t].live /\ ~tokens[t].redeemed

Open(t) == Redeemable(t) /\ tokens[t].opened_by # NoBrowser

\* session_secret_matches: the cookie holds the secret minted for the token
SecretMatches(b, t) == cookie[b] = t

\* mark_token_opened's WHERE: neither expiry nor redemption is asked again
Claimable(t) == tokens[t].opened_by = NoBrowser

\* a redemption not yet committed holds the row's lock
BeingRedeemed(t) == \E b \in Browsers : request[b] = [op |-> "redeemed", token |-> t]

\* the unique constraint on phase_event_id, and ensure_handover_open
Unconfirmed == confirmation = NoConfirmation

\* expire_sibling_tokens: it waits for the rows it has to update
CanRetire(except) == \A t \in DOMAIN tokens \ {except} :
  Redeemable(t) => ~BeingRedeemed(t)

Retired == [t \in DOMAIN tokens |-> [tokens[t] EXCEPT !.live = FALSE]]

Become(b, op, t) == request' = [request EXCEPT ![b] = [op |-> op, token |-> t]]
Finish(b) == request' = [request EXCEPT ![b] = Ended]
-----------------------------------------------------------------------------
Init ==
  /\ tokens = <<>>
  /\ confirmation = NoConfirmation
  /\ rotation = [at |-> "idle", force |-> FALSE]
  /\ request = [b \in Browsers |-> Ended]
  /\ cookie = [b \in Browsers |-> NoToken]

(* The driver's app asks for the next code, by its timer or with force.    *)
BeginRotation(force) ==
  /\ rotation.at = "idle"
  /\ Unconfirmed
  /\ rotation' = [at |-> "checked", force |-> force]
  /\ UNCHANGED <<tokens, confirmation, request, cookie>>

\* find_open_token: a code that somebody has open pauses the series
LookForOpen ==
  /\ rotation.at = "checked"
  /\ rotation' =
       IF ~rotation.force /\ \E t \in DOMAIN tokens : Open(t)
       THEN [at |-> "idle", force |-> FALSE]
       ELSE [rotation EXCEPT !.at = "issuing"]
  /\ UNCHANGED <<tokens, confirmation, request, cookie>>

\* the next token, and the retirement of every other, in one commit
Issue ==
  /\ rotation.at = "issuing"
  /\ Len(tokens) < MaxTokens
  /\ CanRetire(NoToken)
  /\ tokens' = Append(Retired, Fresh)
  /\ rotation' = [at |-> "idle", force |-> FALSE]
  /\ UNCHANGED <<confirmation, request, cookie>>

\* the request ends without a commit
RotationLost ==
  /\ rotation.at # "idle"
  /\ rotation' = [at |-> "idle", force |-> FALSE]
  /\ UNCHANGED <<tokens, confirmation, request, cookie>>

(* A browser presents a code.  Each public route reads the token first,    *)
(* and confirm checks the browser's cookie against what it read.           *)
Present(b, op, t) ==
  /\ request[b] = Ended
  /\ Redeemable(t)
  /\ op = "confirm" => SecretMatches(b, t)
  /\ Become(b, op, t)
  /\ UNCHANGED <<tokens, confirmation, rotation, cookie>>

\* the scan page; the answer that carries the cookie may be lost
MarkOpened(b, answered) ==
  LET t == request[b].token IN
  /\ request[b].op = "scan"
  /\ IF Claimable(t)
     THEN /\ tokens' = [tokens EXCEPT ![t].opened_by = b]
          /\ cookie' = IF answered THEN [cookie EXCEPT ![b] = t] ELSE cookie
     ELSE UNCHANGED <<tokens, cookie>>
  /\ Finish(b)
  /\ UNCHANGED <<confirmation, rotation>>

\* the conditional UPDATE; it waits for another redemption of the same row
Redeem(b) ==
  LET t == request[b].token IN
  /\ request[b].op = "confirm"
  /\ ~BeingRedeemed(t)
  /\ IF Redeemable(t) THEN Become(b, "redeemed", t) ELSE Finish(b)
  /\ UNCHANGED <<tokens, confirmation, rotation, cookie>>

\* the confirmation, the retirement of the series, and the commit
RecordConfirmation(b) ==
  LET t == request[b].token IN
  /\ request[b].op = "redeemed"
  /\ Unconfirmed
  /\ CanRetire(t)
  /\ confirmation' = [token |-> t, browser |-> b]
  /\ tokens' = [Retired EXCEPT ![t].live = tokens[t].live, ![t].redeemed = TRUE]
  /\ Finish(b)
  /\ UNCHANGED <<rotation, cookie>>

(* The identity check: one session per token, whose answer extends it once *)
(* unless it is redeemed by then.  The token was read before the call.     *)
FinishVerify(b, started) ==
  LET t == request[b].token IN
  /\ request[b].op = "verify"
  /\ ~BeingRedeemed(t)
  /\ IF tokens[t].asked THEN UNCHANGED tokens
     ELSE tokens' = [tokens EXCEPT ![t].asked = TRUE,
            ![t].extended = started /\ ~tokens[t].redeemed,
            ![t].live = @ \/ (started /\ ~tokens[t].redeemed)]
  /\ Finish(b)
  /\ UNCHANGED <<confirmation, rotation, cookie>>

\* a request ends and rolls back: an error, a deadlock, a lost process
Abort(b) ==
  /\ request[b] # Ended
  /\ Finish(b)
  /\ UNCHANGED <<tokens, confirmation, rotation, cookie>>

\* expires_at passes
Expire(t) ==
  /\ tokens[t].live
  /\ tokens' = [tokens EXCEPT ![t].live = FALSE]
  /\ UNCHANGED <<confirmation, rotation, request, cookie>>

DriverStep ==
  \/ \E force \in BOOLEAN : BeginRotation(force)
  \/ LookForOpen \/ Issue \/ RotationLost

ReceiverStep(b) ==
  \/ \E op \in {"scan", "confirm", "verify"}, t \in DOMAIN tokens : Present(b, op, t)
  \/ \E answered \in BOOLEAN : MarkOpened(b, answered)
  \/ Redeem(b) \/ RecordConfirmation(b)
  \/ \E started \in BOOLEAN : FinishVerify(b, started)
  \/ Abort(b)

Next ==
  \/ DriverStep
  \/ \E b \in Browsers : ReceiverStep(b)
  \/ \E t \in DOMAIN tokens : Expire(t)

Spec == Init /\ [][Next]_vars
-----------------------------------------------------------------------------
TypeOK ==
  /\ tokens \in Seq(Token) /\ Len(tokens) <= MaxTokens
  /\ confirmation = NoConfirmation \/
       confirmation \in [token : DOMAIN tokens, browser : Browsers]
  /\ rotation \in [at : {"idle", "checked", "issuing"}, force : BOOLEAN]
  /\ request \in [Browsers -> [op : {"none"}, token : {NoToken}] \union
       [op : {"scan", "confirm", "redeemed", "verify"}, token : DOMAIN tokens]]
  /\ cookie \in [Browsers -> {NoToken} \union DOMAIN tokens]

(* A token is spent exactly when the delivery was confirmed with it, and   *)
(* by the browser that opened it: no redemption survives a confirmation    *)
(* that failed, and no forwarded code confirms.                            *)
RedeemedIsConfirmed ==
  /\ \A t \in DOMAIN tokens : tokens[t].redeemed <=> confirmation.token = t
  /\ confirmation # NoConfirmation =>
       tokens[confirmation.token].opened_by = confirmation.browser

(* The retirement holds: of two tokens that can be redeemed, the older was *)
(* brought back by an identity check; nothing else leaves or makes two.    *)
OnlyExtensionRevives ==
  \A t, u \in DOMAIN tokens : t < u /\ Redeemable(t) /\ Redeemable(u) =>
    tokens[t].extended
=============================================================================

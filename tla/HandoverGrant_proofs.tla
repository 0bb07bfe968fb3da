------------------------ MODULE HandoverGrant_proofs ------------------------
(***************************************************************************)
(* Proofs about HandoverGrant, for any number of browsers and of tokens.   *)
(***************************************************************************)
EXTENDS HandoverGrant, SequenceTheorems, TLAPS

(* An element of the series is a token; writing one leaves the others.     *)
LEMMA TokenType ==
  ASSUME TypeOK, NEW t \in DOMAIN tokens
  PROVE  tokens[t] \in Token
  <1>1. tokens \in Seq(Token) /\ t \in 1 .. Len(tokens)
    BY DEF TypeOK
  <1> QED
    BY <1>1, ElementOfSeq

LEMMA TokenWritten ==
  ASSUME NEW s \in Seq(Token), NEW t \in DOMAIN s, NEW new \in Token
  PROVE  /\ [s EXCEPT ![t] = new] \in Seq(Token)
         /\ Len([s EXCEPT ![t] = new]) = Len(s)
         /\ DOMAIN [s EXCEPT ![t] = new] = DOMAIN s
         /\ \A u \in DOMAIN s :
              [s EXCEPT ![t] = new][u] = IF u = t THEN new ELSE s[u]
  <1>1. t \in 1 .. Len(s) /\ DOMAIN s = 1 .. Len(s)
    OBVIOUS
  <1> QED
    BY <1>1, ExceptSeq

(* Retirement ends the life of every token and changes nothing else.       *)
LEMMA RetiredType ==
  ASSUME TypeOK
  PROVE  /\ Retired \in Seq(Token) /\ Len(Retired) = Len(tokens)
         /\ DOMAIN Retired = DOMAIN tokens
         /\ \A t \in DOMAIN tokens :
              /\ Retired[t] \in Token /\ Retired[t].live = FALSE
              /\ Retired[t].opened_by = tokens[t].opened_by
              /\ Retired[t].redeemed = tokens[t].redeemed
              /\ Retired[t].asked = tokens[t].asked
              /\ Retired[t].extended = tokens[t].extended
  <1>1. tokens \in Seq(Token) /\ DOMAIN tokens = 1 .. Len(tokens)
        /\ Len(tokens) \in Nat
    BY DEF TypeOK
  <1>2. \A t \in DOMAIN tokens : tokens[t] \in Token
    BY TokenType
  <1>3. \A t \in DOMAIN tokens :
          /\ Retired[t] = [tokens[t] EXCEPT !.live = FALSE]
          /\ Retired[t] \in Token
    BY <1>2 DEF Retired, Token
  <1>4. Retired \in [1 .. Len(tokens) -> Token] /\ DOMAIN Retired = DOMAIN tokens
    BY <1>1, <1>3 DEF Retired
  <1>5. Retired \in Seq(Token) /\ Len(Retired) = Len(tokens)
    BY <1>1, <1>4, SeqDef
  <1> QED
    BY <1>2, <1>3, <1>4, <1>5 DEF Token
-----------------------------------------------------------------------------
(* What the two safety properties rest on: a secret is held only by the    *)
(* browser that opened its token, a confirmation under way was let in by   *)
(* that secret, and only an identity check that was asked for extends.     *)
SecretsBound == \A b \in Browsers :
  cookie[b] # NoToken => tokens[cookie[b]].opened_by = b

ConfirmersBound == \A b \in Browsers :
  request[b].op \in {"confirm", "redeemed"} =>
    tokens[request[b].token].opened_by = b

(* OnlyExtensionRevives is not inductive: it would let an older token stay *)
(* live beside a newer one that has expired and is then extended.  What    *)
(* holds step by step is that only the newest lives without an extension.  *)
OnlyNewestUnextended == \A t \in DOMAIN tokens :
  Redeemable(t) => t = Len(tokens) \/ tokens[t].extended

ExtendedWasAsked == \A t \in DOMAIN tokens : tokens[t].extended => tokens[t].asked

GrantInv == /\ TypeOK
            /\ RedeemedIsConfirmed /\ OnlyNewestUnextended
            /\ SecretsBound /\ ConfirmersBound /\ ExtendedWasAsked

LEMMA InitGrant == Init => GrantInv
  <1> SUFFICES ASSUME Init PROVE GrantInv
    OBVIOUS
  <1>1. tokens \in Seq(Token) /\ Len(tokens) = 0 /\ DOMAIN tokens = {}
    BY EmptySeq DEF Init
  <1>2. TypeOK
    BY <1>1, GrantAssumption DEF Init, TypeOK, Ended, NoConfirmation
  <1>3. RedeemedIsConfirmed /\ OnlyNewestUnextended /\ ExtendedWasAsked
    BY <1>1 DEF Init, RedeemedIsConfirmed, OnlyNewestUnextended, ExtendedWasAsked
  <1>4. SecretsBound /\ ConfirmersBound
    BY DEF Init, SecretsBound, ConfirmersBound, Ended
  <1> QED
    BY <1>2, <1>3, <1>4 DEF GrantInv

(* A step that leaves the series alone, and lets a browser be about to     *)
(* confirm only a token that it opened.                                    *)
LEMMA SeriesKept ==
  ASSUME GrantInv, tokens' = tokens, confirmation' = confirmation,
         cookie' = cookie,
         rotation' \in [at : {"idle", "checked", "issuing"}, force : BOOLEAN],
         request' \in [Browsers -> [op : {"none"}, token : {NoToken}] \union
           [op : {"scan", "confirm", "redeemed", "verify"}, token : DOMAIN tokens]],
         \A b \in Browsers : request'[b].op \in {"confirm", "redeemed"} =>
           tokens[request'[b].token].opened_by = b
  PROVE  GrantInv'
  <1>1. TypeOK'
    BY DEF GrantInv, TypeOK
  <1>2. RedeemedIsConfirmed' /\ OnlyNewestUnextended' /\ ExtendedWasAsked'
    BY DEF GrantInv, RedeemedIsConfirmed, OnlyNewestUnextended,
           ExtendedWasAsked, Redeemable
  <1>3. SecretsBound' /\ ConfirmersBound'
    BY DEF GrantInv, SecretsBound, ConfirmersBound
  <1> QED
    BY <1>1, <1>2, <1>3 DEF GrantInv

(* A step that writes tokens of the series: none is unbound or given to    *)
(* another browser, none is spent, and an extension was asked for.         *)
LEMMA SeriesWritten ==
  ASSUME GrantInv, confirmation' = confirmation, rotation' = rotation,
         tokens' \in Seq(Token), Len(tokens') = Len(tokens),
         cookie' \in [Browsers -> {NoToken} \union DOMAIN tokens],
         request' = request \/ \E b \in Browsers : Finish(b),
         \A t \in DOMAIN tokens :
           /\ tokens'[t].redeemed = tokens[t].redeemed
           /\ tokens[t].opened_by # NoBrowser =>
                tokens'[t].opened_by = tokens[t].opened_by
           /\ tokens'[t].extended => tokens'[t].asked
           /\ tokens[t].extended => tokens'[t].extended
           /\ tokens'[t].live => tokens[t].live \/ tokens'[t].extended,
         \A b \in Browsers : cookie'[b] \in {cookie[b], NoToken} \/
           tokens'[cookie'[b]].opened_by = b
  PROVE  GrantInv'
  <1> USE DEF GrantInv
  <1>1. \A b \in Browsers : b # NoBrowser
    BY GrantAssumption
  <1>1a. DOMAIN tokens' = DOMAIN tokens
    BY DEF TypeOK
  <1>1b. \A b \in Browsers : request'[b] = request[b] \/ request'[b] = Ended
    BY DEF Finish, TypeOK
  <1>1c. TypeOK'
    <2>1. request' \in [Browsers -> [op : {"none"}, token : {NoToken}] \union
            [op : {"scan", "confirm", "redeemed", "verify"}, token : DOMAIN tokens]]
      BY DEF Finish, TypeOK, Ended
    <2> QED
      BY <1>1a, <2>1 DEF TypeOK
  <1>2. RedeemedIsConfirmed'
    <2>1. confirmation # NoConfirmation =>
            confirmation.token \in DOMAIN tokens /\ confirmation.browser \in Browsers
      BY DEF TypeOK
    <2> QED
      BY <1>1, <1>1a, <2>1 DEF RedeemedIsConfirmed
  <1>3. OnlyNewestUnextended'
    <2>1. SUFFICES ASSUME NEW t \in DOMAIN tokens, Redeemable(t)',
                          ~tokens'[t].extended
                   PROVE  t = Len(tokens')
      BY <1>1a DEF OnlyNewestUnextended
    <2>2. Redeemable(t) /\ ~tokens[t].extended
      BY <2>1 DEF Redeemable
    <2>3. Len(tokens') = Len(tokens)
      BY DEF TypeOK
    <2> QED
      BY <2>2, <2>3 DEF OnlyNewestUnextended
  <1>4. ExtendedWasAsked'
    BY <1>1a DEF ExtendedWasAsked
  <1>5. SecretsBound'
    <2>1. SUFFICES ASSUME NEW b \in Browsers, cookie'[b] # NoToken, cookie'[b] = cookie[b]
                   PROVE  tokens'[cookie'[b]].opened_by = b
      BY DEF SecretsBound
    <2>2. cookie[b] \in DOMAIN tokens
      BY <2>1 DEF TypeOK
    <2> QED
      BY <1>1, <2>1, <2>2 DEF SecretsBound
  <1>6. ConfirmersBound'
    <2>1. SUFFICES ASSUME NEW b \in Browsers, request'[b] = request[b],
                          request[b].op \in {"confirm", "redeemed"}
                   PROVE  tokens'[request[b].token].opened_by = b
      BY <1>1b DEF ConfirmersBound, Ended
    <2>2. request[b].token \in DOMAIN tokens
      BY <2>1 DEF TypeOK, Ended
    <2> QED
      BY <1>1, <2>1, <2>2 DEF ConfirmersBound
  <1> QED
    BY <1>1c, <1>2, <1>3, <1>4, <1>5, <1>6

LEMMA IssueGrant ==
  ASSUME GrantInv, Issue
  PROVE  GrantInv'
  <1> DEFINE m == Len(tokens)
  <1>1. /\ tokens \in Seq(Token) /\ m \in Nat /\ DOMAIN tokens = 1 .. m
        /\ Len(tokens) < MaxTokens
    BY DEF GrantInv, TypeOK, Issue
  <1>2. Fresh \in Token
    BY DEF Fresh, Token
  <1>3. tokens' = Append(Retired, Fresh)
        /\ Retired \in Seq(Token) /\ Len(Retired) = m
    BY RetiredType DEF Issue, GrantInv
  <1>4. /\ tokens' \in Seq(Token) /\ Len(tokens') = m + 1
        /\ \A t \in 1 .. m : tokens'[t] = Retired[t]
        /\ tokens'[m + 1] = Fresh
    <2> HIDE DEF m
    <2> QED
      BY <1>2, <1>3, AppendProperties
  <1>5. DOMAIN tokens' = 1 .. m + 1
    BY <1>4
  <1>6. \A t \in 1 .. m :
          /\ tokens'[t].live = FALSE
          /\ tokens'[t].opened_by = tokens[t].opened_by
          /\ tokens'[t].redeemed = tokens[t].redeemed
          /\ tokens'[t].asked = tokens[t].asked
          /\ tokens'[t].extended = tokens[t].extended
    BY <1>1, <1>4, RetiredType DEF GrantInv
  <1>7. /\ ~tokens'[m + 1].redeemed /\ ~tokens'[m + 1].extended
    BY <1>4 DEF Fresh
  <1>8. UNCHANGED <<confirmation, request, cookie>>
        /\ rotation' = [at |-> "idle", force |-> FALSE]
    BY DEF Issue
  <1>9. \A t \in 1 .. m + 1 : t \in 1 .. m \/ t = m + 1
    BY <1>1
  <1>10. TypeOK
    BY DEF GrantInv
  <1> HIDE DEF m
  <1>11. TypeOK'
    <2>1. DOMAIN tokens \subseteq DOMAIN tokens'
      BY <1>1, <1>5
    <2>2. Len(tokens') <= MaxTokens
      BY <1>1, <1>4, GrantAssumption DEF m
    <2> QED
      BY <1>4, <1>8, <1>10, <2>1, <2>2 DEF TypeOK
  <1>12. RedeemedIsConfirmed'
    <2>1. confirmation # NoConfirmation => confirmation.token \in 1 .. m
      BY <1>1, <1>10 DEF TypeOK
    <2>2. confirmation.token # m + 1
      BY <1>1, <2>1 DEF NoConfirmation, NoToken
    <2>3. \A t \in 1 .. m : tokens'[t].redeemed <=> confirmation.token = t
      BY <1>1, <1>6 DEF GrantInv, RedeemedIsConfirmed
    <2>4. confirmation # NoConfirmation =>
            tokens'[confirmation.token].opened_by = confirmation.browser
      BY <1>6, <2>1 DEF GrantInv, RedeemedIsConfirmed
    <2> QED
      BY <1>5, <1>7, <1>8, <1>9, <2>2, <2>3, <2>4 DEF RedeemedIsConfirmed
  <1>13. OnlyNewestUnextended'
    BY <1>4, <1>5, <1>6, <1>9 DEF OnlyNewestUnextended, Redeemable
  <1>14. ExtendedWasAsked'
    BY <1>1, <1>5, <1>6, <1>7, <1>9 DEF GrantInv, ExtendedWasAsked
  <1>15. SecretsBound'
    <2>1. \A b \in Browsers : cookie[b] # NoToken => cookie[b] \in 1 .. m
      BY <1>1, <1>10 DEF TypeOK
    <2> QED
      BY <1>6, <1>8, <2>1 DEF GrantInv, SecretsBound
  <1>16. ConfirmersBound'
    <2>1. \A b \in Browsers : request[b].op \in {"confirm", "redeemed"} =>
            request[b].token \in 1 .. m
      BY <1>1, <1>10 DEF TypeOK, Ended
    <2> QED
      BY <1>6, <1>8, <2>1 DEF GrantInv, ConfirmersBound
  <1> QED
    BY <1>11, <1>12, <1>13, <1>14, <1>15, <1>16 DEF GrantInv

(* The confirmation spends the token its browser opened; no other token is *)
(* spent, because none was confirmed before.                               *)
LEMMA RecordGrant ==
  ASSUME GrantInv, NEW b \in Browsers, RecordConfirmation(b)
  PROVE  GrantInv'
  <1> DEFINE t == request[b].token
             spent == [Retired[t] EXCEPT !.live = tokens[t].live,
                                         !.redeemed = TRUE]
  <1>1. TypeOK /\ t \in DOMAIN tokens /\ request[b].op = "redeemed"
        /\ confirmation = NoConfirmation
    BY DEF GrantInv, TypeOK, RecordConfirmation, Ended, Unconfirmed
  <1>2. tokens[t] \in Token /\ Retired[t] \in Token
    BY <1>1, TokenType, RetiredType
  <1>3. /\ spent \in Token /\ spent.redeemed = TRUE
        /\ spent.live = tokens[t].live
        /\ spent.opened_by = tokens[t].opened_by
        /\ spent.asked = tokens[t].asked /\ spent.extended = tokens[t].extended
    BY <1>1, <1>2, RetiredType DEF Token
  <1>4. tokens' = [Retired EXCEPT ![t] = spent]
    <2>1. tokens' = [Retired EXCEPT ![t].live = tokens[t].live,
                                    ![t].redeemed = TRUE]
      BY DEF RecordConfirmation
    <2> QED
      BY <1>1, <2>1, RetiredType
  <1> HIDE DEF spent
  <1>5. /\ tokens' \in Seq(Token) /\ Len(tokens') = Len(tokens)
        /\ DOMAIN tokens' = DOMAIN tokens
        /\ \A u \in DOMAIN tokens : tokens'[u] = IF u = t THEN spent ELSE Retired[u]
    BY <1>1, <1>3, <1>4, RetiredType, TokenWritten
  <1>6. \A u \in DOMAIN tokens :
          /\ tokens'[u].opened_by = tokens[u].opened_by
          /\ tokens'[u].asked = tokens[u].asked
          /\ tokens'[u].extended = tokens[u].extended
          /\ u # t => tokens'[u].redeemed = tokens[u].redeemed
          /\ u # t => tokens'[u].live = FALSE
          /\ u = t => tokens'[u].redeemed
    <2>1. ASSUME NEW u \in DOMAIN tokens, u # t
          PROVE  /\ tokens'[u].opened_by = tokens[u].opened_by
                 /\ tokens'[u].asked = tokens[u].asked
                 /\ tokens'[u].extended = tokens[u].extended
                 /\ tokens'[u].redeemed = tokens[u].redeemed
                 /\ tokens'[u].live = FALSE
      <3>1. tokens'[u] = Retired[u]
        BY <1>5, <2>1
      <3> QED
        BY <1>1, <3>1, RetiredType
    <2>2. tokens'[t] = spent
      BY <1>1, <1>5
    <2> QED
      BY <1>3, <2>1, <2>2
  <1>7. /\ confirmation' = [token |-> t, browser |-> b]
        /\ Finish(b) /\ rotation' = rotation /\ cookie' = cookie
    BY DEF RecordConfirmation
  <1>8. request' \in [Browsers -> [op : {"none"}, token : {NoToken}] \union
            [op : {"scan", "confirm", "redeemed", "verify"}, token : DOMAIN tokens]]
        /\ \A c \in Browsers : request'[c] = request[c] \/ request'[c] = Ended
    BY <1>1, <1>7 DEF Finish, TypeOK, Ended
  <1>9. \A u \in DOMAIN tokens : ~tokens[u].redeemed
    BY <1>1 DEF GrantInv, RedeemedIsConfirmed, NoConfirmation, NoToken, TypeOK
  <1>10. tokens[t].opened_by = b
    BY <1>1 DEF GrantInv, ConfirmersBound
  <1> HIDE DEF t
  <1>11. TypeOK'
    BY <1>1, <1>5, <1>7, <1>8 DEF TypeOK
  <1>12. RedeemedIsConfirmed'
    BY <1>1, <1>5, <1>6, <1>7, <1>9, <1>10 DEF RedeemedIsConfirmed
  <1>13. OnlyNewestUnextended'
    BY <1>5, <1>6 DEF OnlyNewestUnextended, Redeemable
  <1>14. ExtendedWasAsked'
    BY <1>5, <1>6 DEF GrantInv, ExtendedWasAsked
  <1>15. SecretsBound'
    <2>1. \A c \in Browsers : cookie[c] # NoToken => cookie[c] \in DOMAIN tokens
      BY <1>1 DEF TypeOK
    <2> QED
      BY <1>6, <1>7, <2>1 DEF GrantInv, SecretsBound
  <1>16. ConfirmersBound'
    <2>1. \A c \in Browsers : request[c].op \in {"confirm", "redeemed"} =>
            request[c].token \in DOMAIN tokens
      BY <1>1 DEF TypeOK, Ended
    <2>2. Ended.op = "none"
      BY DEF Ended
    <2> QED
      BY <1>6, <1>8, <2>1, <2>2 DEF GrantInv, ConfirmersBound
  <1> QED
    BY <1>11, <1>12, <1>13, <1>14, <1>15, <1>16 DEF GrantInv

LEMMA MarkOpenedGrant ==
  ASSUME GrantInv, NEW b \in Browsers, NEW answered \in BOOLEAN,
         MarkOpened(b, answered)
  PROVE  GrantInv'
  <1> DEFINE t == request[b].token
             opened == [tokens[t] EXCEPT !.opened_by = b]
  <1>1. TypeOK /\ t \in DOMAIN tokens /\ tokens \in Seq(Token)
    BY DEF GrantInv, TypeOK, MarkOpened, Ended
  <1>2. tokens[t] \in Token
    BY <1>1, TokenType
  <1>3. /\ UNCHANGED <<confirmation, rotation>> /\ Finish(b)
    BY DEF MarkOpened
  <1>4. CASE Claimable(t)
    <2>1. tokens' = [tokens EXCEPT ![t] = opened]
          /\ cookie' = IF answered THEN [cookie EXCEPT ![b] = t] ELSE cookie
      BY <1>4 DEF MarkOpened
    <2>2. opened \in Token /\ opened.opened_by = b /\ opened.live = tokens[t].live
          /\ opened.redeemed = tokens[t].redeemed
          /\ opened.asked = tokens[t].asked /\ opened.extended = tokens[t].extended
      BY <1>2 DEF Token
    <2>3. tokens[t].opened_by = NoBrowser
      BY <1>4 DEF Claimable
    <2> HIDE DEF opened, t
    <2>4. /\ tokens' \in Seq(Token) /\ Len(tokens') = Len(tokens)
          /\ \A u \in DOMAIN tokens :
               tokens'[u] = IF u = t THEN opened ELSE tokens[u]
      BY <1>1, <2>1, <2>2, TokenWritten
    <2>5. cookie' \in [Browsers -> {NoToken} \union DOMAIN tokens]
      BY <1>1, <2>1 DEF TypeOK
    <2>6. \A c \in Browsers : cookie'[c] = cookie[c] \/ (c = b /\ cookie'[c] = t)
      BY <1>1, <2>1 DEF TypeOK
    <2>7. \A u \in DOMAIN tokens :
           /\ tokens'[u].redeemed = tokens[u].redeemed
           /\ tokens[u].opened_by # NoBrowser =>
                tokens'[u].opened_by = tokens[u].opened_by
           /\ tokens'[u].extended => tokens'[u].asked
           /\ tokens[u].extended => tokens'[u].extended
           /\ tokens'[u].live => tokens[u].live \/ tokens'[u].extended
      BY <2>2, <2>3, <2>4 DEF GrantInv, ExtendedWasAsked
    <2>8. \A c \in Browsers : cookie'[c] \in {cookie[c], NoToken} \/
            tokens'[cookie'[c]].opened_by = c
      BY <1>1, <2>2, <2>4, <2>6
    <2> QED
      BY <1>3, <2>4, <2>5, <2>7, <2>8, SeriesWritten
  <1>5. CASE ~Claimable(t)
    <2>1. UNCHANGED <<tokens, cookie>>
      BY <1>5 DEF MarkOpened
    <2> QED
      BY <1>1, <1>3, <2>1, SeriesWritten DEF TypeOK, GrantInv, ExtendedWasAsked
  <1> QED
    BY <1>4, <1>5

(* The answer of an identity check extends only a token that is not spent, *)
(* and only once; a lost answer leaves it as it was.                       *)
LEMMA FinishVerifyGrant ==
  ASSUME GrantInv, NEW b \in Browsers, NEW started \in BOOLEAN,
         FinishVerify(b, started)
  PROVE  GrantInv'
  <1> DEFINE t == request[b].token
             extends == started /\ ~tokens[t].redeemed
             checked == [tokens[t] EXCEPT !.asked = TRUE, !.extended = extends,
                                          !.live = @ \/ extends]
  <1>1. TypeOK /\ t \in DOMAIN tokens /\ tokens \in Seq(Token)
    BY DEF GrantInv, TypeOK, FinishVerify, Ended
  <1>2. tokens[t] \in Token
    BY <1>1, TokenType
  <1>3. UNCHANGED <<confirmation, rotation, cookie>> /\ Finish(b)
    BY DEF FinishVerify
  <1>4. cookie' \in [Browsers -> {NoToken} \union DOMAIN tokens]
    BY <1>1, <1>3 DEF TypeOK
  <1>5. CASE ~tokens[t].asked
    <2>1. tokens' = [tokens EXCEPT ![t] = checked]
      BY <1>1, <1>5 DEF FinishVerify
    <2>2. extends \in BOOLEAN /\ tokens[t].live \in BOOLEAN
      BY <1>2 DEF Token
    <2>3. checked \in Token /\ checked.opened_by = tokens[t].opened_by
          /\ checked.redeemed = tokens[t].redeemed /\ checked.asked = TRUE
          /\ checked.extended = extends
          /\ checked.live = (tokens[t].live \/ extends)
      <3> HIDE DEF extends
      <3> QED
        BY <1>2, <2>2 DEF Token
    <2>4. ~tokens[t].extended
      BY <1>1, <1>5 DEF GrantInv, ExtendedWasAsked
    <2> HIDE DEF checked, extends, t
    <2>5. /\ tokens' \in Seq(Token) /\ Len(tokens') = Len(tokens)
          /\ \A u \in DOMAIN tokens :
               tokens'[u] = IF u = t THEN checked ELSE tokens[u]
      BY <1>1, <2>1, <2>3, TokenWritten
    <2>6. ASSUME NEW u \in DOMAIN tokens
          PROVE  /\ tokens'[u].redeemed = tokens[u].redeemed
                 /\ tokens[u].opened_by # NoBrowser =>
                      tokens'[u].opened_by = tokens[u].opened_by
                 /\ tokens'[u].extended => tokens'[u].asked
                 /\ tokens[u].extended => tokens'[u].extended
                 /\ tokens'[u].live => tokens[u].live \/ tokens'[u].extended
      <3>1. CASE u = t
        BY <2>3, <2>4, <2>5, <3>1
      <3>2. CASE u # t
        BY <2>5, <3>2 DEF GrantInv, ExtendedWasAsked
      <3> QED
        BY <3>1, <3>2
    <2> QED
      BY <1>3, <1>4, <2>5, <2>6, SeriesWritten
  <1>6. CASE tokens[t].asked
    <2>1. tokens' = tokens
      BY <1>6 DEF FinishVerify
    <2> QED
      BY <1>1, <1>3, <1>4, <2>1, SeriesWritten DEF GrantInv, ExtendedWasAsked
  <1> QED
    BY <1>5, <1>6

LEMMA ExpireGrant ==
  ASSUME GrantInv, NEW t \in DOMAIN tokens, Expire(t)
  PROVE  GrantInv'
  <1> DEFINE dead == [tokens[t] EXCEPT !.live = FALSE]
  <1>1. TypeOK /\ tokens \in Seq(Token) /\ tokens[t] \in Token
    BY TokenType DEF GrantInv, TypeOK
  <1>2. tokens' = [tokens EXCEPT ![t] = dead]
        /\ UNCHANGED <<confirmation, rotation, request, cookie>>
    BY DEF Expire
  <1>3. dead \in Token /\ dead.opened_by = tokens[t].opened_by
        /\ dead.redeemed = tokens[t].redeemed /\ dead.asked = tokens[t].asked
        /\ dead.extended = tokens[t].extended /\ dead.live = FALSE
    BY <1>1 DEF Token
  <1> HIDE DEF dead
  <1>4. /\ tokens' \in Seq(Token) /\ Len(tokens') = Len(tokens)
        /\ \A u \in DOMAIN tokens : tokens'[u] = IF u = t THEN dead ELSE tokens[u]
    BY <1>1, <1>2, <1>3, TokenWritten
  <1>5. \A u \in DOMAIN tokens :
          /\ tokens'[u].redeemed = tokens[u].redeemed
          /\ tokens'[u].opened_by = tokens[u].opened_by
          /\ tokens'[u].extended => tokens'[u].asked
          /\ tokens[u].extended => tokens'[u].extended
          /\ tokens'[u].live => tokens[u].live \/ tokens'[u].extended
    BY <1>3, <1>4 DEF GrantInv, ExtendedWasAsked
  <1>6. cookie' \in [Browsers -> {NoToken} \union DOMAIN tokens]
    BY <1>1, <1>2 DEF TypeOK
  <1> QED
    BY <1>2, <1>4, <1>5, <1>6, SeriesWritten

LEMMA PresentGrant ==
  ASSUME GrantInv, NEW b \in Browsers, NEW op \in {"scan", "confirm", "verify"},
         NEW t \in DOMAIN tokens, Present(b, op, t)
  PROVE  GrantInv'
  <1>1. TypeOK /\ t # NoToken
    BY DEF GrantInv, TypeOK, NoToken
  <1>2. request' = [request EXCEPT ![b] = [op |-> op, token |-> t]]
        /\ UNCHANGED <<tokens, confirmation, rotation, cookie>>
    BY DEF Present, Become
  <1>3. op = "confirm" => tokens[t].opened_by = b
    BY <1>1 DEF Present, SecretMatches, GrantInv, SecretsBound
  <1>4. request' \in [Browsers -> [op : {"none"}, token : {NoToken}] \union
          [op : {"scan", "confirm", "redeemed", "verify"}, token : DOMAIN tokens]]
    BY <1>1, <1>2 DEF TypeOK
  <1>5. \A c \in Browsers : request'[c].op \in {"confirm", "redeemed"} =>
          tokens[request'[c].token].opened_by = c
    BY <1>1, <1>2, <1>3 DEF GrantInv, ConfirmersBound, TypeOK
  <1> QED
    BY <1>1, <1>2, <1>4, <1>5, SeriesKept DEF TypeOK

LEMMA RedeemGrant ==
  ASSUME GrantInv, NEW b \in Browsers, Redeem(b)
  PROVE  GrantInv'
  <1> DEFINE t == request[b].token
  <1>1. TypeOK /\ request[b].op = "confirm" /\ t \in DOMAIN tokens
        /\ tokens[t].opened_by = b
    BY DEF GrantInv, TypeOK, Redeem, Ended, ConfirmersBound
  <1>2. /\ \/ request' = [request EXCEPT ![b] = [op |-> "redeemed", token |-> t]]
           \/ request' = [request EXCEPT ![b] = Ended]
        /\ UNCHANGED <<tokens, confirmation, rotation, cookie>>
    BY DEF Redeem, Become, Finish
  <1>3. request' \in [Browsers -> [op : {"none"}, token : {NoToken}] \union
          [op : {"scan", "confirm", "redeemed", "verify"}, token : DOMAIN tokens]]
    BY <1>1, <1>2 DEF TypeOK, Ended
  <1>4. \A c \in Browsers : request'[c].op \in {"confirm", "redeemed"} =>
          tokens[request'[c].token].opened_by = c
    BY <1>1, <1>2 DEF GrantInv, ConfirmersBound, TypeOK, Ended
  <1> QED
    BY <1>1, <1>2, <1>3, <1>4, SeriesKept DEF TypeOK

LEMMA AbortGrant ==
  ASSUME GrantInv, NEW b \in Browsers, Abort(b)
  PROVE  GrantInv'
  BY SeriesWritten DEF Abort, GrantInv, TypeOK, ExtendedWasAsked

LEMMA DriverGrant ==
  ASSUME GrantInv, DriverStep
  PROVE  GrantInv'
  <1>1. ASSUME NEW force \in BOOLEAN, BeginRotation(force)
        PROVE  GrantInv'
    BY <1>1, SeriesKept DEF BeginRotation, GrantInv, TypeOK, ConfirmersBound
  <1>2. CASE LookForOpen
    BY <1>2, SeriesKept DEF LookForOpen, GrantInv, TypeOK, ConfirmersBound
  <1>3. CASE Issue
    BY <1>3, IssueGrant
  <1>4. CASE RotationLost
    BY <1>4, SeriesKept DEF RotationLost, GrantInv, TypeOK, ConfirmersBound
  <1> QED
    BY <1>1, <1>2, <1>3, <1>4 DEF DriverStep

LEMMA NextGrant == GrantInv /\ [Next]_vars => GrantInv'
  <1> SUFFICES ASSUME GrantInv, [Next]_vars PROVE GrantInv'
    OBVIOUS
  <1>1. ASSUME NEW b \in Browsers, ReceiverStep(b) PROVE GrantInv'
    BY <1>1, PresentGrant, MarkOpenedGrant, RedeemGrant, RecordGrant,
       FinishVerifyGrant, AbortGrant DEF ReceiverStep
  <1>2. CASE UNCHANGED vars
    BY <1>2, SeriesKept DEF vars, GrantInv, TypeOK, ConfirmersBound
  <1> QED
    BY <1>1, <1>2, DriverGrant, ExpireGrant DEF Next

LEMMA GrantInvariant == Spec => []GrantInv
  <1> QED
    BY InitGrant, NextGrant, PTL DEF Spec
-----------------------------------------------------------------------------
(* Every reachable series of codes is well typed: the confirmation, the    *)
(* requests and the cookies name tokens that were issued.                  *)
THEOREM TypeCorrect == Spec => []TypeOK
  <1> QED
    BY GrantInvariant, PTL DEF GrantInv

(* For any number of codes, scans, forwarded links, aborted redemptions    *)
(* and identity checks, a token is spent exactly when the delivery was     *)
(* confirmed with it, by the browser that opened it.                       *)
THEOREM SpentTokenConfirmed == Spec => []RedeemedIsConfirmed
  <1> QED
    BY GrantInvariant, PTL DEF GrantInv

LEMMA OnlyNewestSuffices == GrantInv => OnlyExtensionRevives
  <1>1. GrantInv => Len(tokens) \in Nat /\ DOMAIN tokens = 1 .. Len(tokens)
    BY DEF GrantInv, TypeOK
  <1> QED
    BY <1>1 DEF GrantInv, OnlyNewestUnextended, OnlyExtensionRevives

(* Of two codes that can be redeemed, however scans, rotations and checks  *)
(* interleave, the older was brought back by an identity check.            *)
THEOREM RevivalIsExtension == Spec => []OnlyExtensionRevives
  <1> QED
    BY GrantInvariant, OnlyNewestSuffices, PTL
=============================================================================

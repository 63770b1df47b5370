----------------------------- MODULE GuardProofs -----------------------------
(* Proofs about the guards in front of a handler, for any callers and bounds *)
(* of each: the tokens of jwt and csrf, the limiters in memory and in Redis, *)
(* the chain of middlewares, and the limits of archives.  The theorems of a  *)
(* section are about its module alone, the last ones about Guards.  First    *)
(* come the facts about sums that the sections on limits need.               *)
EXTENDS Guards, Sums, Integers, Sequences, SequenceTheorems, WellFoundedInduction, TLAPS

all == <<part, limits, slides, tokens, singles, requests, archives>>

-----------------------------------------------------------------------------
(* Sums *)

Less == OpToRel(<, Nat)

LEMMA LessFounded == IsWellFoundedOn(Less, Nat)
  BY NatLessThanWellFounded DEF Less

LEMMA LessMeans == ASSUME NEW m \in Nat, NEW n \in Nat, m < n PROVE <<m, n>> \in Less
<1>1. <<m, n>> \in Nat \X Nat /\ <<m, n>>[1] < <<m, n>>[2]
  OBVIOUS
<1> QED BY <1>1 DEF Less, OpToRel

LEMMA Least == ASSUME NEW T, T \subseteq Nat, T # {}
               PROVE \E n \in T : \A m \in T : n <= m
<1>1. \E n \in T : \A m \in T : ~ (<<m, n>> \in Less)
  BY LessFounded, WFMin
<1>2. PICK n \in T : \A m \in T : ~ (<<m, n>> \in Less)
  BY <1>1
<1>3. ASSUME NEW m \in T PROVE n <= m
  <2>1. m \in Nat /\ n \in Nat /\ ~ (<<m, n>> \in Less)
    BY <1>2
  <2>2. ~ (m < n)
    BY <2>1, LessMeans
  <2> QED BY <2>1, <2>2
<1> QED BY <1>3

LEMMA SetInduction ==
  ASSUME NEW T, T \subseteq Nat, 0 \in T, \A n \in T : n + 1 \in T
  PROVE  T = Nat
<1> SUFFICES ASSUME Nat \ T # {} PROVE FALSE
  OBVIOUS
<1>1. PICK n \in Nat \ T : \A m \in Nat \ T : n <= m
  BY Least
<1>2. n # 0 /\ n - 1 \in Nat /\ n - 1 \notin Nat \ T
  BY <1>1
<1> QED BY <1>2, n = (n - 1) + 1

(* A function that adds up as sums do.                                       *)
Solves(s, f, n) == \A k \in 0 .. n : s[k] = f[k] + (IF k = 0 THEN 0 ELSE s[k - 1])

LEMMA SumsExist ==
    ASSUME NEW f, NEW n \in Nat, \A k \in 0 .. n : f[k] \in Nat
    PROVE  \E s \in [0 .. n -> Nat] : Solves(s, f, n)
<1> DEFINE T == {m \in Nat : m <= n => \E s \in [0 .. m -> Nat] : Solves(s, f, m)}
<1>1. 0 \in T
  <2>1. [k \in 0 .. 0 |-> f[0]] \in [0 .. 0 -> Nat] /\ Solves([k \in 0 .. 0 |-> f[0]], f, 0)
    BY DEF Solves
  <2> QED BY <2>1
<1>2. ASSUME NEW m \in T PROVE m + 1 \in T
  <2> SUFFICES ASSUME m + 1 <= n PROVE \E s \in [0 .. m + 1 -> Nat] : Solves(s, f, m + 1)
    OBVIOUS
  <2>1. PICK r \in [0 .. m -> Nat] : Solves(r, f, m)
    OBVIOUS
  <2> DEFINE s == [k \in 0 .. m + 1 |-> IF k = m + 1 THEN f[m + 1] + r[m] ELSE r[k]]
  <2>2. f[m + 1] \in Nat /\ r[m] \in Nat
    OBVIOUS
  <2>3. s \in [0 .. m + 1 -> Nat]
    BY <2>2
  <2>4. ASSUME NEW k \in 0 .. m + 1 PROVE s[k] = f[k] + (IF k = 0 THEN 0 ELSE s[k - 1])
    <3>1. CASE k = m + 1
      BY <2>2, <3>1
    <3>2. CASE k # m + 1
      <4>1. k \in 0 .. m /\ (k # 0 => k - 1 \in 0 .. m /\ k - 1 # m + 1 /\ k - 1 \in 0 .. m + 1)
        BY <3>2
      <4> QED BY <2>1, <3>2, <4>1 DEF Solves
    <3> QED BY <3>1, <3>2
  <2> HIDE DEF s
  <2> QED BY <2>3, <2>4 DEF Solves
<1> HIDE DEF T
<1>3. T \subseteq Nat
  BY DEF T
<1>4. n \in T
  BY <1>1, <1>2, <1>3, SetInduction
<1> QED BY <1>4 DEF T

LEMMA SumsSolve ==
    ASSUME NEW f, NEW n \in Nat, \A k \in 0 .. n : f[k] \in Nat
    PROVE  Sums(f, n) \in [0 .. n -> Nat] /\ Solves(Sums(f, n), f, n)
<1> DEFINE step(s) == [k \in 0 .. n |-> f[k] + (IF k = 0 THEN 0 ELSE s[k - 1])]
<1>1. PICK s \in [0 .. n -> Nat] : Solves(s, f, n)
  BY SumsExist
<1>2. s = step(s)
  BY <1>1 DEF Solves
<1>3. Sums(f, n) = CHOOSE t : t = step(t)
  BY DEF Sums
<1>4. Sums(f, n) = step(Sums(f, n))
  BY <1>2, <1>3
<1>5. Solves(Sums(f, n), f, n)
  BY <1>4 DEF Solves
<1> DEFINE S == Sums(f, n)
           T == {m \in Nat : m <= n => S[m] \in Nat}
<1> HIDE DEF S
<1>5a. \A k \in 0 .. n : S[k] = f[k] + (IF k = 0 THEN 0 ELSE S[k - 1])
  BY <1>5 DEF Solves, S
<1>6. 0 \in T
  BY <1>5a
<1>7. ASSUME NEW m \in T PROVE m + 1 \in T
  <2> SUFFICES ASSUME m + 1 <= n PROVE S[m + 1] \in Nat
    OBVIOUS
  <2>1. S[m + 1] = f[m + 1] + S[m]
    BY <1>5a, (m + 1) - 1 = m, m + 1 # 0
  <2>2. S[m] \in Nat /\ f[m + 1] \in Nat
    OBVIOUS
  <2> QED BY <2>1, <2>2
<1>8. \A m \in 0 .. n : S[m] \in Nat
  <2>1. T \subseteq Nat
    OBVIOUS
  <2> HIDE DEF T
  <2>2. T = Nat
    BY <1>6, <1>7, <2>1, SetInduction
  <2> QED BY <2>2 DEF T
<1>9. S = [k \in 0 .. n |-> S[k]]
  BY <1>4 DEF S
<1> QED BY <1>5, <1>8, <1>9 DEF S

(* The sum is the same however far the function that computes it goes.       *)
LEMMA SumsAgree ==
    ASSUME NEW f, NEW n \in Nat, NEW m \in 0 .. n, \A k \in 0 .. n : f[k] \in Nat
    PROVE  Sums(f, n)[m] = Total(f, m)
<1> DEFINE S == Sums(f, n)
           R == Sums(f, m)
           T == {k \in Nat : k <= m => S[k] = R[k]}
<1>1. Solves(S, f, n) /\ Solves(R, f, m) /\ m \in Nat /\ m <= n
  BY SumsSolve
<1> HIDE DEF S, R
<1>2. 0 \in T
  BY <1>1 DEF Solves
<1>3. ASSUME NEW k \in T PROVE k + 1 \in T
  BY <1>1 DEF Solves
<1>4. T = Nat
  <2>1. T \subseteq Nat
    OBVIOUS
  <2> HIDE DEF T
  <2> QED BY <1>2, <1>3, <2>1, SetInduction
<1> QED BY <1>1, <1>4 DEF S, R, Total

(* The recursion, in the form the proofs use.                                *)
LEMMA TotalIs ==
    ASSUME NEW f, NEW n \in Nat, \A k \in 0 .. n : f[k] \in Nat
    PROVE  /\ Total(f, n) \in Nat
           /\ Total(f, n) = IF n = 0 THEN f[0] ELSE Total(f, n - 1) + f[n]
<1>1. Sums(f, n) \in [0 .. n -> Nat] /\ Solves(Sums(f, n), f, n) /\ n \in 0 .. n
  BY SumsSolve
<1>2. n # 0 => Sums(f, n)[n - 1] = Total(f, n - 1)
  BY SumsAgree
<1> QED BY <1>1, <1>2 DEF Solves, Total

(* A smaller function has a smaller sum.                                     *)
LEMMA TotalGrows ==
    ASSUME NEW f, NEW g, NEW n \in Nat,
           \A k \in 0 .. n : f[k] \in Nat /\ g[k] \in Nat /\ f[k] <= g[k]
    PROVE  Total(f, n) <= Total(g, n)
<1> DEFINE T == {m \in Nat : m <= n => Total(f, m) <= Total(g, m)}
<1>1. 0 \in T
  BY TotalIs
<1>2. ASSUME NEW m \in T PROVE m + 1 \in T
  <2> SUFFICES ASSUME m + 1 <= n PROVE Total(f, m + 1) <= Total(g, m + 1)
    OBVIOUS
  <2>1. Total(f, m + 1) = Total(f, m) + f[m + 1] /\ Total(g, m + 1) = Total(g, m) + g[m + 1]
    BY TotalIs, (m + 1) - 1 = m, m + 1 # 0
  <2>2. Total(f, m) \in Nat /\ Total(g, m) \in Nat /\ f[m + 1] \in Nat /\ g[m + 1] \in Nat
        /\ Total(f, m) <= Total(g, m) /\ f[m + 1] <= g[m + 1]
    BY TotalIs
  <2> QED BY <2>1, <2>2
<1>3. T = Nat
  <2>1. T \subseteq Nat
    OBVIOUS
  <2> HIDE DEF T
  <2> QED BY <1>1, <1>2, <2>1, SetInduction
<1> QED BY <1>3

LEMMA TotalAgrees ==
    ASSUME NEW f, NEW g, NEW n \in Nat, \A k \in 0 .. n : f[k] \in Nat /\ g[k] = f[k]
    PROVE  Total(g, n) = Total(f, n)
<1>1. Total(f, n) <= Total(g, n) /\ Total(g, n) <= Total(f, n)
  BY TotalGrows
<1>2. Total(f, n) \in Nat /\ Total(g, n) \in Nat
  BY TotalIs
<1> QED BY <1>1, <1>2

LEMMA TotalOfNothing ==
    ASSUME NEW f, NEW n \in Nat, \A k \in 0 .. n : f[k] = 0 PROVE Total(f, n) = 0
<1> DEFINE T == {m \in Nat : m <= n => Total(f, m) = 0}
<1>1. 0 \in T
  BY TotalIs
<1>2. ASSUME NEW m \in T PROVE m + 1 \in T
  <2> SUFFICES ASSUME m + 1 <= n PROVE Total(f, m + 1) = 0
    OBVIOUS
  <2>1. Total(f, m + 1) = Total(f, m) + f[m + 1]
    BY TotalIs, (m + 1) - 1 = m, m + 1 # 0
  <2> QED BY <2>1
<1>3. T = Nat
  <2>1. T \subseteq Nat
    OBVIOUS
  <2> HIDE DEF T
  <2> QED BY <1>1, <1>2, <2>1, SetInduction
<1> QED BY <1>3

(* One more at one place makes one more of every sum that reaches it.        *)
LEMMA TotalOfOneMore ==
    ASSUME NEW f, NEW g, NEW n \in Nat, NEW d \in Nat,
           \A k \in 0 .. n : f[k] \in Nat /\ g[k] = IF k = d THEN f[k] + 1 ELSE f[k]
    PROVE  Total(g, n) = IF d <= n THEN Total(f, n) + 1 ELSE Total(f, n)
<1> DEFINE T == {m \in Nat : m <= n => Total(g, m) = IF d <= m THEN Total(f, m) + 1 ELSE Total(f, m)}
<1>0. \A k \in 0 .. n : g[k] \in Nat
  OBVIOUS
<1>1. 0 \in T
  <2>1. Total(f, 0) = f[0] /\ Total(g, 0) = g[0]
    BY <1>0, TotalIs
  <2> QED BY <2>1
<1>2. ASSUME NEW m \in T PROVE m + 1 \in T
  <2> SUFFICES ASSUME m + 1 <= n
               PROVE  Total(g, m + 1) = IF d <= m + 1 THEN Total(f, m + 1) + 1 ELSE Total(f, m + 1)
    OBVIOUS
  <2>1. Total(f, m + 1) = Total(f, m) + f[m + 1] /\ Total(g, m + 1) = Total(g, m) + g[m + 1]
    BY <1>0, TotalIs, (m + 1) - 1 = m, m + 1 # 0
  <2>2. Total(f, m) \in Nat
    BY TotalIs
  <2>3. /\ f[m + 1] \in Nat
        /\ Total(g, m) = IF d <= m THEN Total(f, m) + 1 ELSE Total(f, m)
        /\ g[m + 1] = IF m + 1 = d THEN f[m + 1] + 1 ELSE f[m + 1]
    OBVIOUS
  <2> QED BY <2>1, <2>2, <2>3
<1>3. T = Nat
  <2>1. T \subseteq Nat
    OBVIOUS
  <2> HIDE DEF T
  <2> QED BY <1>1, <1>2, <2>1, SetInduction
<1> QED BY <1>3

(* Everything one place later.                                               *)
LEMMA TotalShifted ==
    ASSUME NEW f, NEW g, NEW n \in Nat, g[0] = 0,
           \A k \in 0 .. n : f[k] \in Nat /\ g[k + 1] = f[k]
    PROVE  Total(g, n + 1) = Total(f, n)
<1> DEFINE T == {m \in Nat : m <= n => Total(g, m + 1) = Total(f, m)}
<1>0. \A k \in 0 .. n + 1 : g[k] \in Nat
  <2> SUFFICES ASSUME NEW k \in 0 .. n + 1, k # 0 PROVE g[k] \in Nat
    OBVIOUS
  <2>1. k - 1 \in 0 .. n /\ (k - 1) + 1 = k
    OBVIOUS
  <2>2. g[(k - 1) + 1] = f[k - 1] /\ f[k - 1] \in Nat
    BY <2>1
  <2> QED BY <2>1, <2>2
<1>1. 0 \in T
  <2>1. Total(f, 0) = f[0] /\ Total(g, 0) = g[0] /\ g[1] = f[0] /\ f[0] \in Nat
    BY <1>0, TotalIs
  <2>2. Total(g, 1) = Total(g, 0) + g[1]
    BY <1>0, TotalIs, 1 - 1 = 0
  <2> QED BY <2>1, <2>2
<1>2. ASSUME NEW m \in T PROVE m + 1 \in T
  <2> SUFFICES ASSUME m + 1 <= n PROVE Total(g, m + 1 + 1) = Total(f, m + 1)
    OBVIOUS
  <2>1. Total(f, m + 1) = Total(f, m) + f[m + 1]
    BY TotalIs, (m + 1) - 1 = m, m + 1 # 0
  <2>2. Total(g, m + 1 + 1) = Total(g, m + 1) + g[m + 1 + 1]
    BY <1>0, TotalIs, (m + 1 + 1) - 1 = m + 1, m + 1 + 1 # 0
  <2> QED BY <2>1, <2>2
<1>3. T = Nat
  <2>1. T \subseteq Nat
    OBVIOUS
  <2> HIDE DEF T
  <2> QED BY <1>1, <1>2, <2>1, SetInduction
<1> QED BY <1>3

(* A sum that goes further is no smaller.                                    *)
LEMMA TotalOfMore ==
    ASSUME NEW f, NEW n \in Nat, NEW m \in 0 .. n, \A k \in 0 .. n : f[k] \in Nat
    PROVE  Total(f, m) <= Total(f, n)
<1> DEFINE T == {k \in Nat : k <= n /\ m <= k => Total(f, m) <= Total(f, k)}
<1>1. 0 \in T
  BY TotalIs
<1>2. ASSUME NEW k \in T PROVE k + 1 \in T
  <2> SUFFICES ASSUME k + 1 <= n, m <= k + 1 PROVE Total(f, m) <= Total(f, k + 1)
    OBVIOUS
  <2>1. Total(f, k + 1) = Total(f, k) + f[k + 1] /\ f[k + 1] \in Nat
    BY TotalIs, (k + 1) - 1 = k, k + 1 # 0
  <2>2. Total(f, k) \in Nat /\ Total(f, m) \in Nat
    BY TotalIs
  <2>3. m <= k => Total(f, m) <= Total(f, k)
    OBVIOUS
  <2>4. m <= k \/ m = k + 1
    OBVIOUS
  <2> QED BY <2>1, <2>2, <2>3, <2>4
<1>3. T = Nat
  <2>1. T \subseteq Nat
    OBVIOUS
  <2> HIDE DEF T
  <2> QED BY <1>1, <1>2, <2>1, SetInduction
<1> QED BY <1>3

-----------------------------------------------------------------------------
(* JwtTokens *)

(* An entry of the blacklist that lasts as long as its token does.           *)
Covered(t) == blacklist[t] >= left[t]

(* Every call works on a token that was issued, with a secret that is not    *)
(* ahead of the configured one.                                              *)
TokensAreIssued ==
    /\ \A c \in Callers : jwtPc[c] # "idle" => jwtTok[c] \in JT!Issued
    /\ revoked \subseteq JT!Issued /\ replaced \subseteq revoked
    /\ \A t \in JT!Tokens : signed[t] <= secret

(* A revoked token is covered or was signed with a secret that is gone for   *)
(* good; so is one that a call is about to acknowledge, by the entry it      *)
(* stores; and who saw a revoked token valid knows that it is covered.       *)
RevokedAreCovered ==
    /\ \A t \in revoked : Covered(t) \/ signed[t] < secret
    /\ \A c \in Callers :
          /\ jwtPc[c] = "set" => span[c] >= left[jwtTok[c]]
          /\ jwtPc[c] = "issue" => Covered(jwtTok[c])
          /\ jwtPc[c] \in {"check", "accepted"} /\ known[c] => Covered(jwtTok[c])

JwtInv == JT!TypeOK /\ TokensAreIssued /\ RevokedAreCovered /\ JT!RevokedIsRefused

LEMMA JwtInit == ASSUME JT!JwtAssumption, JT!Init PROVE JwtInv
BY DEF JT!JwtAssumption, JT!Init, JwtInv, JT!TypeOK, TokensAreIssued, RevokedAreCovered,
     JT!RevokedIsRefused, JT!Ops, JT!Tokens

(* What a token's caller has in hand. *)
LEMMA JwtTypes ==
    ASSUME JT!JwtAssumption, JwtInv, NEW c \in Callers
    PROVE  /\ jwtPc[c] # "idle" => jwtTok[c] \in JT!Tokens /\ signed[jwtTok[c]] > 0
           /\ span[c] \in 0 .. Expire
           /\ \A t \in JT!Tokens : left[t] \in 0 .. Expire /\ blacklist[t] \in 0 .. Expire
                                   /\ signed[t] \in 0 .. MaxSecrets /\ signed[t] <= secret
           /\ secret \in 1 .. MaxSecrets
BY DEF JwtInv, JT!TypeOK, TokensAreIssued, JT!Issued

(* A call that ends leaves nothing behind, whatever it stored before. *)
LEMMA ReturnKeeps ==
    ASSUME JT!JwtAssumption, JwtInv, NEW c \in Callers, JT!Return(c),
           UNCHANGED <<left, signed, secret, revoked, replaced>>,
           blacklist' \in [JT!Tokens -> 0 .. Expire],
           \A t \in JT!Tokens : Covered(t) => Covered(t)'
    PROVE  JwtInv'
<1> USE DEF JwtInv, JT!Return, JT!Goto
<1>1. JT!TypeOK'
  <2>1. /\ jwtPc' \in [Callers -> {"idle", "check", "add", "set", "issue", "accepted"}]
        /\ op' \in [Callers -> JT!Ops]
        /\ jwtTok' \in [Callers -> JT!Tokens \cup {NoToken}]
        /\ span' \in [Callers -> 0 .. Expire]
    BY DEF JT!TypeOK, JT!Ops, JT!JwtAssumption
  <2>2. known' \in [Callers -> BOOLEAN]
    BY DEF JT!TypeOK
  <2> QED BY <2>1, <2>2 DEF JT!TypeOK, JT!Tokens
<1>2. TokensAreIssued'
  BY DEF TokensAreIssued, JT!TypeOK, JT!Issued
<1>3. RevokedAreCovered'
  <2>1. revoked \subseteq JT!Tokens
    BY DEF JT!TypeOK
  <2>2. \A d \in Callers : jwtPc[d] # "idle" => jwtTok[d] \in JT!Tokens
    BY JwtTypes
  <2>3. \A d \in Callers : jwtPc'[d] # "idle" =>
           /\ d # c /\ jwtPc'[d] = jwtPc[d] /\ jwtTok'[d] = jwtTok[d] /\ span'[d] = span[d]
           /\ known'[d] = known[d]
    BY DEF JT!TypeOK
  <2>4. \A t \in revoked : (Covered(t) \/ signed[t] < secret)'
    BY <2>1 DEF RevokedAreCovered
  <2> QED BY <2>2, <2>3, <2>4 DEF RevokedAreCovered, Covered
<1>4. JT!RevokedIsRefused'
  BY DEF JT!RevokedIsRefused, JT!TypeOK
<1> QED BY <1>1, <1>2, <1>3, <1>4

(* The entry that Add stores lasts as long as the token. *)
LEMMA StoreCovers ==
    ASSUME JT!JwtAssumption, JwtInv, NEW c \in Callers, jwtPc[c] = "set", JT!Store(c),
           UNCHANGED left
    PROVE  /\ blacklist' \in [JT!Tokens -> 0 .. Expire]
           /\ blacklist'[jwtTok[c]] >= left[jwtTok[c]]
           /\ \A t \in JT!Tokens : Covered(t) => Covered(t)'
<1>1. jwtTok[c] \in JT!Tokens /\ span[c] \in 0 .. Expire /\ span[c] >= left[jwtTok[c]]
  BY JwtTypes DEF JwtInv, RevokedAreCovered
<1>2. blacklist' = [blacklist EXCEPT ![jwtTok[c]] = span[c]]
  BY DEF JT!Store
<1> QED BY <1>1, <1>2 DEF JwtInv, JT!TypeOK, Covered

(* nil from Add, when the token's entry is there: the acknowledgement, or    *)
(* for a refresh the way to the new token.                                   *)
LEMMA AddOkKeeps ==
    ASSUME JT!JwtAssumption, JwtInv, NEW c \in Callers, jwtPc[c] \in {"add", "set"},
           JT!AddOk(c), UNCHANGED <<left, signed, secret>>,
           blacklist' \in [JT!Tokens -> 0 .. Expire],
           blacklist'[jwtTok[c]] >= left[jwtTok[c]],
           \A t \in JT!Tokens : Covered(t) => Covered(t)'
    PROVE  JwtInv'
<1> USE DEF JwtInv
<1>0. /\ jwtTok[c] \in JT!Tokens /\ jwtTok[c] \in JT!Issued
      /\ revoked \subseteq JT!Tokens /\ JT!Issued' = JT!Issued
      /\ \A d \in Callers : jwtPc[d] # "idle" => jwtTok[d] \in JT!Tokens
  BY JwtTypes DEF JT!TypeOK, TokensAreIssued, JT!Issued
<1>1. CASE op[c] = "RefreshToken"
  <2>1. /\ jwtPc' = [jwtPc EXCEPT ![c] = "issue"]
        /\ UNCHANGED <<op, jwtTok, span, revoked, known, replaced>>
    BY <1>1 DEF JT!AddOk, JT!Goto, JT!histories
  <2>2. JT!TypeOK'
    BY <2>1 DEF JT!TypeOK, JT!Tokens
  <2>3. TokensAreIssued'
    BY <1>0, <2>1 DEF TokensAreIssued, JT!TypeOK, JT!Tokens
  <2>4. RevokedAreCovered'
    BY <1>0, <2>1 DEF RevokedAreCovered, Covered, JT!TypeOK
  <2>5. JT!RevokedIsRefused'
    BY <2>1 DEF JT!RevokedIsRefused, JT!TypeOK
  <2> QED BY <2>2, <2>3, <2>4, <2>5
<1>2. CASE op[c] # "RefreshToken"
  <2>1. JT!Return(c) /\ revoked' = revoked \cup {jwtTok[c]} /\ UNCHANGED replaced
    BY <1>2 DEF JT!AddOk, JT!Acknowledge
  <2>2. JT!TypeOK'
    <3>1. /\ jwtPc' \in [Callers -> {"idle", "check", "add", "set", "issue", "accepted"}]
          /\ op' \in [Callers -> JT!Ops]
          /\ jwtTok' \in [Callers -> JT!Tokens \cup {NoToken}]
          /\ span' \in [Callers -> 0 .. Expire]
      BY <2>1 DEF JT!TypeOK, JT!Ops, JT!JwtAssumption, JT!Return, JT!Goto
    <3>2. known' \in [Callers -> BOOLEAN]
      BY <2>1 DEF JT!TypeOK, JT!Return
    <3> QED BY <1>0, <2>1, <3>1, <3>2 DEF JT!TypeOK, JT!Tokens
  <2>3. \A d \in Callers : jwtPc'[d] # "idle" =>
           /\ d # c /\ jwtPc'[d] = jwtPc[d] /\ jwtTok'[d] = jwtTok[d] /\ span'[d] = span[d]
           /\ known'[d] = known[d] /\ op'[d] = op[d]
    BY <2>1 DEF JT!TypeOK, JT!Return, JT!Goto
  <2>4. TokensAreIssued'
    BY <1>0, <2>1, <2>3 DEF TokensAreIssued, JT!Tokens
  <2>5. RevokedAreCovered'
    BY <1>0, <2>1, <2>3 DEF RevokedAreCovered, Covered
  <2>6. JT!RevokedIsRefused'
    BY <2>3 DEF JT!RevokedIsRefused
  <2> QED BY <2>2, <2>4, <2>5, <2>6
<1> QED BY <1>1, <1>2

(* A new token is nobody's yet. *)
LEMMA NewTokenFacts ==
    ASSUME JT!JwtAssumption, JwtInv, NEW t \in JT!Tokens, JT!NewToken(t), UNCHANGED secret
    PROVE  /\ left' \in [JT!Tokens -> 0 .. Expire] /\ signed' \in [JT!Tokens -> 0 .. MaxSecrets]
           /\ JT!Issued \subseteq JT!Issued'
           /\ \A u \in JT!Tokens : signed'[u] <= secret
           /\ t \notin JT!Issued
           /\ \A u \in JT!Issued : left'[u] = left[u] /\ signed'[u] = signed[u]
<1>1. /\ left \in [JT!Tokens -> 0 .. Expire] /\ signed \in [JT!Tokens -> 0 .. MaxSecrets]
      /\ secret \in 1 .. MaxSecrets /\ Expire \in Nat /\ MaxSecrets \in Nat
      /\ \A u \in JT!Tokens : signed[u] <= secret
  BY DEF JwtInv, JT!TypeOK, TokensAreIssued, JT!JwtAssumption
<1>2. /\ signed[t] = 0
      /\ signed' = [signed EXCEPT ![t] = secret] /\ left' = [left EXCEPT ![t] = Expire]
  BY DEF JT!NewToken
<1>3. /\ JT!Issued = {u \in JT!Tokens : signed[u] > 0}
      /\ JT!Issued' = {u \in JT!Tokens : signed'[u] > 0}
  BY DEF JT!Issued, JT!Tokens
<1> QED BY <1>1, <1>2, <1>3

(* Every step of a call, of the issuing and of the time keeps JwtInv.        *)
LEMMA JwtCallKeeps ==
    ASSUME JT!JwtAssumption, JwtInv, NEW c \in Callers,
           \/ JT!CheckFinds(c) \/ JT!CheckPasses(c) \/ JT!CheckFails(c) \/ JT!Accepted(c)
           \/ JT!AddNoClient(c) \/ JT!AddExpired(c) \/ JT!AddReads(c) \/ JT!AddSets(c)
           \/ JT!AddFails(c) \/ JT!RefreshCannotIssue(c)
    PROVE  JwtInv'
<1>0. blacklist \in [JT!Tokens -> 0 .. Expire]
  BY DEF JwtInv, JT!TypeOK
<1>1. ASSUME JT!Return(c), UNCHANGED <<left, signed, blacklist, secret, revoked, replaced>>
      PROVE  JwtInv'
  BY <1>0, <1>1, ReturnKeeps DEF Covered
<1>2. ASSUME jwtPc[c] = "check", JT!Proceed(c), op[c] # "ParseToken" \/ blacklist[jwtTok[c]] = 0,
             UNCHANGED <<left, signed, blacklist, secret, op, jwtTok, span, revoked, known, replaced>>
      PROVE  JwtInv'
  <2> USE DEF JwtInv
  <2>1. jwtPc' \in {[jwtPc EXCEPT ![c] = "add"], [jwtPc EXCEPT ![c] = "accepted"]}
    BY <1>2 DEF JT!Proceed, JT!Goto
  <2>2. JT!TypeOK'
    BY <1>2, <2>1 DEF JT!TypeOK, JT!Tokens
  <2>3. TokensAreIssued'
    BY <1>2, <2>1 DEF TokensAreIssued, JT!Issued, JT!TypeOK, JT!Tokens
  <2>4. RevokedAreCovered'
    BY <1>2, <2>1 DEF RevokedAreCovered, Covered, JT!TypeOK
  <2>5. JT!RevokedIsRefused'
    <3>1. known[c] /\ op[c] = "ParseToken" => left[jwtTok[c]] = 0
      BY <1>2, JwtTypes DEF RevokedAreCovered, Covered
    <3> QED BY <1>2, <2>1, <3>1 DEF JT!RevokedIsRefused, JT!TypeOK
  <2> QED BY <2>2, <2>3, <2>4, <2>5
<1>3. CASE JT!CheckFinds(c)
  BY <1>1, <1>3 DEF JT!CheckFinds
<1>4. CASE JT!CheckPasses(c)
  BY <1>2, <1>4 DEF JT!CheckPasses, JT!histories
<1>5. CASE JT!CheckFails(c)
  BY <1>1, <1>2, <1>5 DEF JT!CheckFails, JT!PassesOnError
<1>6. CASE JT!Accepted(c)
  BY <1>1, <1>6 DEF JT!Accepted
<1>7. CASE JT!AddNoClient(c)
  BY <1>1, <1>7 DEF JT!AddNoClient, JT!AddError
<1>8. CASE JT!AddExpired(c)
  <2>1. left[jwtTok[c]] = 0 /\ blacklist[jwtTok[c]] >= 0
    BY <1>8, JwtTypes DEF JT!AddExpired
  <2> QED BY <1>0, <1>8, <2>1, AddOkKeeps DEF JT!AddExpired, Covered
<1>9. CASE JT!AddReads(c)
  <2> USE DEF JwtInv
  <2>1. /\ jwtTok[c] \in JT!Tokens /\ left[jwtTok[c]] \in 0 .. Expire
        /\ jwtPc' = [jwtPc EXCEPT ![c] = "set"] /\ span' = [span EXCEPT ![c] = left[jwtTok[c]]]
        /\ UNCHANGED <<left, signed, blacklist, secret, op, jwtTok, revoked, known, replaced>>
    BY <1>9, JwtTypes DEF JT!AddReads, JT!Goto, JT!Span, JT!histories
  <2>2. JT!TypeOK'
    BY <2>1 DEF JT!TypeOK, JT!Tokens
  <2>3. TokensAreIssued'
    BY <1>9, <2>1 DEF JT!AddReads, TokensAreIssued, JT!Issued, JT!TypeOK, JT!Tokens
  <2>4. RevokedAreCovered'
    BY <2>1 DEF RevokedAreCovered, Covered, JT!TypeOK
  <2>5. JT!RevokedIsRefused'
    BY <2>1 DEF JT!RevokedIsRefused, JT!TypeOK
  <2> QED BY <2>2, <2>3, <2>4, <2>5
<1>10. CASE JT!AddSets(c)
  BY <1>10, StoreCovers, AddOkKeeps DEF JT!AddSets
<1>11. CASE JT!AddFails(c)
  BY <1>1, <1>11, StoreCovers, ReturnKeeps DEF JT!AddFails, JT!AddError
<1>12. CASE JT!RefreshCannotIssue(c)
  BY <1>1, <1>12 DEF JT!RefreshCannotIssue
<1> QED BY <1>3, <1>4, <1>5, <1>6, <1>7, <1>8, <1>9, <1>10, <1>11, <1>12

(* Calls that begin know which tokens are covered. *)
LEMMA JwtBeginKeeps ==
    ASSUME JT!JwtAssumption, JwtInv, NEW c \in Callers, NEW t \in JT!Tokens,
           NEW o \in JT!Ops \cup {"InvalidateTokenByID"}, JT!Call(c, o, t)
    PROVE  JwtInv'
<1> USE DEF JwtInv
<1>0. /\ jwtPc[c] = "idle" /\ t \in JT!Issued
      /\ op' = [op EXCEPT ![c] = IF o = "InvalidateTokenByID" THEN "InvalidateToken" ELSE o]
      /\ jwtTok' = [jwtTok EXCEPT ![c] = t]
      /\ known' = [known EXCEPT ![c] = t \in revoked]
      /\ UNCHANGED <<left, signed, blacklist, secret, span, revoked, replaced>>
  BY DEF JT!Call
<1>1. \/ jwtPc' = [jwtPc EXCEPT ![c] = "check"] /\ JT!Valid(t)
      \/ jwtPc' = [jwtPc EXCEPT ![c] = "add"]
  BY DEF JT!Call, JT!Goto
<1>2. JT!TypeOK'
  <2>1. known' \in [Callers -> BOOLEAN]
    BY <1>0 DEF JT!TypeOK
  <2>2. /\ jwtPc' \in [Callers -> {"idle", "check", "add", "set", "issue", "accepted"}]
        /\ op' \in [Callers -> JT!Ops] /\ jwtTok' \in [Callers -> JT!Tokens \cup {NoToken}]
    BY <1>0, <1>1 DEF JT!TypeOK, JT!Ops
  <2> QED BY <1>0, <2>1, <2>2 DEF JT!TypeOK, JT!Tokens
<1>3. TokensAreIssued'
  BY <1>0, <1>1 DEF TokensAreIssued, JT!Issued, JT!TypeOK, JT!Tokens
<1>4. RevokedAreCovered'
  <2>1. JT!Valid(t) /\ t \in revoked => Covered(t)
    BY JwtTypes DEF RevokedAreCovered, JT!Valid, JT!SignatureValid
  <2>2. \A d \in Callers : d # c =>
           /\ jwtPc'[d] = jwtPc[d] /\ jwtTok'[d] = jwtTok[d] /\ known'[d] = known[d]
    BY <1>0, <1>1 DEF JT!TypeOK
  <2>3. jwtTok'[c] = t /\ (known'[c] <=> t \in revoked)
    BY <1>0 DEF JT!TypeOK
  <2>4. jwtPc'[c] \notin {"set", "issue", "accepted"} /\ (jwtPc'[c] = "check" => JT!Valid(t))
    BY <1>1 DEF JT!TypeOK
  <2> QED BY <1>0, <2>1, <2>2, <2>3, <2>4 DEF RevokedAreCovered, Covered
<1>5. JT!RevokedIsRefused'
  BY <1>0, <1>1 DEF JT!RevokedIsRefused, JT!TypeOK
<1> QED BY <1>2, <1>3, <1>4, <1>5

LEMMA JwtNewTokenKeeps ==
    ASSUME JT!JwtAssumption, JwtInv, NEW t \in JT!Tokens, JT!NewToken(t),
           UNCHANGED <<blacklist, secret, jwtPc, op, jwtTok, span, revoked, known, replaced>>
    PROVE  JwtInv'
<1> USE NewTokenFacts DEF JwtInv
<1>1. JT!TypeOK'
  BY DEF JT!TypeOK, JT!Tokens
<1>2. TokensAreIssued'
  BY DEF TokensAreIssued, JT!Tokens
<1>3. RevokedAreCovered'
  BY DEF TokensAreIssued, RevokedAreCovered, Covered
<1>4. JT!RevokedIsRefused'
  BY DEF TokensAreIssued, JT!RevokedIsRefused
<1> QED BY <1>1, <1>2, <1>3, <1>4

LEMMA JwtTickKeeps ==
    ASSUME JT!JwtAssumption, JwtInv, JT!Tick
    PROVE  JwtInv'
<1> USE DEF JwtInv
<1>1. UNCHANGED <<signed, secret, jwtPc, op, jwtTok, span, revoked, known, replaced>>
  BY DEF JT!Tick, JT!histories
<1>2. /\ left' = [t \in JT!Tokens |-> IF left[t] = 0 THEN 0 ELSE left[t] - 1]
      /\ blacklist' = [t \in JT!Tokens |-> IF blacklist[t] = 0 THEN 0 ELSE blacklist[t] - 1]
  BY DEF JT!Tick, JT!Less
<1>3. \A t \in JT!Tokens : /\ left[t] \in 0 .. Expire /\ blacklist[t] \in 0 .. Expire
                           /\ left'[t] \in 0 .. Expire /\ blacklist'[t] \in 0 .. Expire
                           /\ left'[t] <= left[t] /\ (Covered(t) => Covered(t)')
  BY <1>2 DEF JT!JwtAssumption, JT!TypeOK, Covered
<1>4. JT!TypeOK'
  BY <1>1, <1>2, <1>3 DEF JT!TypeOK, JT!Tokens
<1>5. TokensAreIssued' /\ \A c \in Callers : jwtPc[c] # "idle" => jwtTok[c] \in JT!Tokens
  BY <1>1 DEF TokensAreIssued, JT!Issued, JT!Tokens
<1>6. RevokedAreCovered'
  <2>1. \A c \in Callers : jwtPc[c] = "set" => span[c] >= left'[jwtTok[c]]
    BY <1>3, <1>5 DEF RevokedAreCovered, JT!TypeOK, JT!JwtAssumption
  <2>2. \A t \in revoked : Covered(t)' \/ signed[t] < secret
    BY <1>3 DEF RevokedAreCovered, JT!TypeOK
  <2> QED BY <1>1, <1>3, <1>5, <2>1, <2>2 DEF RevokedAreCovered, Covered
<1>7. JT!RevokedIsRefused'
  BY <1>1, <1>3, <1>5 DEF JT!RevokedIsRefused
<1> QED BY <1>4, <1>5, <1>6, <1>7

LEMMA JwtStep == ASSUME JT!JwtAssumption, JwtInv, [JT!Next]_(JT!vars) PROVE JwtInv'
<1> USE DEF JwtInv
<1>1. CASE UNCHANGED JT!vars
  BY <1>1 DEF JT!vars, JT!TypeOK, TokensAreIssued, RevokedAreCovered, Covered,
     JT!RevokedIsRefused, JT!Issued, JT!Tokens
<1>2. CASE JT!GenerateToken
  BY <1>2, JwtNewTokenKeeps DEF JT!GenerateToken, JT!histories
<1>3. CASE JT!NewSecret
  <2>1. /\ secret' = secret + 1 /\ secret' \in 1 .. MaxSecrets
        /\ UNCHANGED <<left, signed, blacklist, jwtPc, op, jwtTok, span, revoked, known, replaced>>
    BY <1>3 DEF JT!NewSecret, JT!TypeOK, JT!JwtAssumption, JT!histories
  <2>2. JT!TypeOK'
    BY <2>1 DEF JT!TypeOK, JT!Tokens
  <2>3. TokensAreIssued'
    <3>1. \A t \in JT!Tokens : signed[t] <= secret'
      BY <2>1 DEF TokensAreIssued, JT!TypeOK, JT!JwtAssumption
    <3>2. JT!Issued' = JT!Issued /\ JT!Tokens' = JT!Tokens
      BY <2>1 DEF JT!Issued, JT!Tokens
    <3> QED BY <2>1, <3>1, <3>2 DEF TokensAreIssued
  <2>4. RevokedAreCovered'
    BY <2>1 DEF RevokedAreCovered, Covered, JT!TypeOK, JT!JwtAssumption
  <2> QED BY <2>1, <2>2, <2>3, <2>4 DEF JT!RevokedIsRefused
<1>4. CASE JT!Tick
  BY <1>4, JwtTickKeeps
<1>5. ASSUME NEW c \in Callers, NEW t \in JT!Tokens, JT!InvalidateUnsigned(c, t)
      PROVE  JwtInv'
  <2>1. /\ t \in JT!Issued /\ signed[t] < secret /\ revoked' = revoked \cup {t}
        /\ UNCHANGED <<left, signed, blacklist, secret, jwtPc, op, jwtTok, span, known, replaced>>
    BY <1>5, JwtTypes DEF JT!InvalidateUnsigned, JT!Acknowledge, JT!SignatureValid
  <2>2. JT!TypeOK'
    BY <2>1 DEF JT!TypeOK, JT!Tokens
  <2>3. TokensAreIssued'
    BY <2>1 DEF TokensAreIssued, JT!Issued, JT!Tokens
  <2>4. RevokedAreCovered'
    BY <2>1 DEF RevokedAreCovered, Covered
  <2> QED BY <2>1, <2>2, <2>3, <2>4 DEF JT!RevokedIsRefused
<1>6. ASSUME NEW c \in Callers, JT!RefreshIssues(c)
      PROVE  JwtInv'
  <2>1. /\ jwtPc[c] = "issue" /\ JT!Return(c) /\ UNCHANGED <<blacklist, secret>>
        /\ revoked' = revoked \cup {jwtTok[c]} /\ replaced' = replaced \cup {jwtTok[c]}
    BY <1>6 DEF JT!RefreshIssues, JT!Acknowledge
  <2>2. PICK t \in JT!Tokens : JT!NewToken(t)
    BY <1>6 DEF JT!RefreshIssues
  <2>3. jwtTok[c] \in JT!Issued /\ Covered(jwtTok[c])
    BY <2>1 DEF TokensAreIssued, RevokedAreCovered
  <2>4. /\ left' \in [JT!Tokens -> 0 .. Expire] /\ signed' \in [JT!Tokens -> 0 .. MaxSecrets]
        /\ JT!Issued \subseteq JT!Issued'
        /\ \A u \in JT!Tokens : signed'[u] <= secret
        /\ \A u \in JT!Issued : left'[u] = left[u] /\ signed'[u] = signed[u]
    BY <2>1, <2>2, NewTokenFacts
  <2>5. \A d \in Callers : jwtPc'[d] # "idle" =>
           /\ d # c /\ jwtPc'[d] = jwtPc[d] /\ jwtTok'[d] = jwtTok[d] /\ span'[d] = span[d]
           /\ known'[d] = known[d] /\ op'[d] = op[d]
    BY <2>1 DEF JT!TypeOK, JT!Return, JT!Goto
  <2>6. JT!TypeOK'
    <3>1. /\ jwtPc' \in [Callers -> {"idle", "check", "add", "set", "issue", "accepted"}]
          /\ op' \in [Callers -> JT!Ops]
          /\ jwtTok' \in [Callers -> JT!Tokens \cup {NoToken}]
          /\ span' \in [Callers -> 0 .. Expire]
      BY <2>1 DEF JT!TypeOK, JT!Ops, JT!JwtAssumption, JT!Return, JT!Goto
    <3>2. known' \in [Callers -> BOOLEAN]
      BY <2>1 DEF JT!TypeOK, JT!Return
    <3> QED BY <2>1, <2>3, <2>4, <3>1, <3>2 DEF JT!TypeOK, JT!Tokens, JT!Issued
  <2>7. TokensAreIssued'
    BY <2>1, <2>3, <2>4, <2>5 DEF TokensAreIssued, JT!Tokens
  <2>8. RevokedAreCovered'
    BY <2>1, <2>3, <2>4, <2>5 DEF RevokedAreCovered, TokensAreIssued, Covered
  <2>9. JT!RevokedIsRefused'
    BY <2>4, <2>5 DEF JT!RevokedIsRefused, TokensAreIssued
  <2> QED BY <2>6, <2>7, <2>8, <2>9
<1> QED BY <1>1, <1>2, <1>3, <1>4, <1>5, <1>6, JwtBeginKeeps, JwtCallKeeps DEF JT!Next

LEMMA JwtInvariant == JT!JwtAssumption /\ JT!Spec => []JwtInv
<1> SUFFICES ASSUME JT!JwtAssumption PROVE JT!Spec => []JwtInv
  OBVIOUS
<1>1. JT!Init => JwtInv
  BY JwtInit
<1>2. JwtInv /\ [JT!Next]_(JT!vars) => JwtInv'
  BY JwtStep
<1> QED BY <1>1, <1>2, PTL DEF JT!Spec

(* A token whose revocation was acknowledged before a fail-closed ParseToken *)
(* began is not accepted by it, for any number of callers, tokens, secrets   *)
(* and any expiry (RevokedIsRefused).                                        *)
THEOREM RevokedStayRefused ==
    JT!JwtAssumption /\ JT!Spec => [](JT!TypeOK /\ JT!RevokedIsRefused)
<1>1. JwtInv => JT!TypeOK /\ JT!RevokedIsRefused
  BY DEF JwtInv
<1> QED BY <1>1, JwtInvariant, PTL

(* When a refresh has issued a new token, the old one is dead                *)
(* (RefreshReplaces).                                                        *)
THEOREM RefreshedAreDead == JT!JwtAssumption /\ JT!Spec => []JT!RefreshReplaces
<1> SUFFICES ASSUME JT!JwtAssumption PROVE JT!Spec => []JT!RefreshReplaces
  OBVIOUS
<1>1. JwtInv => JT!RefreshReplaces
  <2> SUFFICES ASSUME JwtInv, NEW t \in replaced, JT!Valid(t) PROVE blacklist[t] > 0
    BY DEF JT!RefreshReplaces
  <2>1. t \in revoked /\ t \in JT!Tokens
    BY DEF JwtInv, JT!TypeOK, TokensAreIssued
  <2>2. left[t] \in Nat /\ blacklist[t] \in Nat /\ secret \in Nat
    BY <2>1 DEF JwtInv, JT!TypeOK, JT!JwtAssumption
  <2>3. left[t] > 0 /\ signed[t] = secret
    BY DEF JT!Valid, JT!SignatureValid
  <2> QED BY <2>1, <2>2, <2>3 DEF JwtInv, RevokedAreCovered, Covered
<1> QED BY <1>1, JwtInvariant, PTL

-----------------------------------------------------------------------------
(* CsrfTokens *)

CallersTyped ==
    /\ \A c \in Callers : csrfPc[c] # "idle" => csrfTok[c] \in issued
    /\ \A c \in Callers : csrfPc[c] = "idle" => csrfTok[c] = NoToken /\ ~ found[c]
    /\ passed \in [ApiTokens -> {0, 1}]

(* A token is in the map, in the hand of one request, or neither: it lets a  *)
(* request through only out of that hand.                                    *)
OneHand ==
    /\ \A c \in Callers : found[c] => csrfTok[c] \notin stored
    /\ \A c, d \in Callers : found[c] /\ found[d] /\ csrfTok[c] = csrfTok[d] => c = d
    /\ \A c \in Callers : found[c] /\ csrfPc[c] = "consumed" => passed[csrfTok[c]] = 0
    /\ \A c \in Callers : csrfPc[c] = "next" => passed[csrfTok[c]] = 1
    /\ \A c \in Callers : csrfPc[c] = "refused" /\ found[c] => CT!Expired(csrfTok[c])
    /\ \A t \in ApiTokens : t \in stored \/ t \notin issued => passed[t] = 0

(* What happened to a token that is no longer in the map.                    *)
Spent(t) ==
    CT!Expired(t) \/ passed[t] = 1 \/ \E c \in Callers : csrfTok[c] = t /\ found[c]

GoneAreSpent ==
    /\ \A t \in issued : t \in stored \/ Spent(t)
    /\ \A c \in Callers : csrfPc[c] = "consumed" /\ ~ found[c] => Spent(csrfTok[c])
    /\ \A c \in Callers : csrfPc[c] = "refused" => Spent(csrfTok[c])

CsrfInv == CT!TypeOK /\ CallersTyped /\ OneHand /\ GoneAreSpent

LEMMA CsrfInit == ASSUME CT!CsrfAssumption, CT!Init PROVE CsrfInv
BY DEF CT!CsrfAssumption, CT!Init, CsrfInv, CT!TypeOK, CallersTyped, OneHand, GoneAreSpent

(* The cleanups drop only tokens that have expired.                          *)
LEMMA CleanUpFacts ==
    ASSUME NEW S
    PROVE  CT!CleanUp(S) \subseteq S /\ \A t \in S : t \in CT!CleanUp(S) \/ CT!Expired(t)
BY DEF CT!CleanUp

LEMMA CsrfStep == ASSUME CT!CsrfAssumption, CsrfInv, [CT!Next]_(CT!vars) PROVE CsrfInv'
<1> USE DEF CsrfInv
<1>1. CASE UNCHANGED CT!vars
  BY <1>1 DEF CT!vars, CT!TypeOK, CallersTyped, OneHand, GoneAreSpent, Spent, CT!Expired
<1>2. CASE CT!GenerateAPIToken
  <2>1. PICK t \in ApiTokens \ issued :
           issued' = issued \cup {t} /\ stored' = CT!CleanUp(stored) \cup {t}
    BY <1>2 DEF CT!GenerateAPIToken
  <2>2. UNCHANGED <<age, csrfPc, csrfTok, found, passed>>
    BY <1>2 DEF CT!GenerateAPIToken
  <2>3. CT!CleanUp(stored) \subseteq stored /\ \A u \in stored : u \in CT!CleanUp(stored) \/ CT!Expired(u)
    BY CleanUpFacts
  <2>4. CT!TypeOK'
    BY <2>1, <2>2, <2>3 DEF CT!TypeOK
  <2>5. CallersTyped'
    BY <2>1, <2>2 DEF CallersTyped
  <2>6. OneHand'
    <3>1. \A c \in Callers : found[c] => csrfTok[c] \in issued
      BY DEF CallersTyped
    <3> QED BY <2>1, <2>2, <2>3, <3>1 DEF OneHand, CT!Expired
  <2>7. GoneAreSpent'
    BY <2>1, <2>2, <2>3 DEF GoneAreSpent, Spent, CT!Expired
  <2> QED BY <2>4, <2>5, <2>6, <2>7
<1>3. CASE CT!Tick
  <2>1. UNCHANGED <<issued, stored, csrfPc, csrfTok, found, passed>>
    BY <1>3 DEF CT!Tick
  <2>2. age' \in [ApiTokens -> 0 .. TTL + 1] /\ \A t \in ApiTokens : CT!Expired(t) => CT!Expired(t)'
    BY <1>3 DEF CT!Tick, CT!TypeOK, CT!Expired, CT!CsrfAssumption
  <2>3. issued \subseteq ApiTokens /\ \A c \in Callers : csrfPc[c] # "idle" => csrfTok[c] \in ApiTokens
    BY DEF CT!TypeOK, CallersTyped
  <2>4. CT!TypeOK' /\ CallersTyped'
    BY <2>1, <2>2 DEF CT!TypeOK, CallersTyped
  <2>5. OneHand'
    BY <2>1, <2>2, <2>3 DEF OneHand, CT!Expired
  <2>6. GoneAreSpent'
    BY <2>1, <2>2, <2>3 DEF GoneAreSpent, Spent, CT!Expired
  <2> QED BY <2>4, <2>5, <2>6
<1>4. ASSUME NEW c \in Callers, NEW t \in issued, CT!Consume(c, t)
      PROVE  CsrfInv'
  <2>1. /\ csrfPc[c] = "idle" /\ csrfPc' = [csrfPc EXCEPT ![c] = "consumed"]
        /\ csrfTok' = [csrfTok EXCEPT ![c] = t] /\ found' = [found EXCEPT ![c] = t \in stored]
        /\ UNCHANGED <<issued, age, passed>>
    BY <1>4 DEF CT!Consume
  <2>2. /\ stored' \subseteq stored \ {t}
        /\ \A u \in stored \ {t} : u \in stored' \/ CT!Expired(u)
    BY <1>4, CleanUpFacts DEF CT!Consume, CT!Deletes
  <2>3. \A d \in Callers : d # c =>
           csrfPc'[d] = csrfPc[d] /\ csrfTok'[d] = csrfTok[d] /\ found'[d] = found[d]
    BY <2>1 DEF CT!TypeOK
  <2>4. csrfPc'[c] = "consumed" /\ csrfTok'[c] = t /\ (found'[c] <=> t \in stored)
    BY <2>1 DEF CT!TypeOK
  <2>5. csrfTok[c] = NoToken /\ ~ found[c] /\ t \in ApiTokens
    BY <2>1 DEF CallersTyped, CT!TypeOK
  <2>6. CT!TypeOK'
    <3>1. found' \in [Callers -> BOOLEAN]
      BY <2>1 DEF CT!TypeOK
    <3> QED BY <2>1, <2>2, <2>5, <3>1 DEF CT!TypeOK
  <2>7. CallersTyped'
    BY <2>1, <2>3, <2>4 DEF CallersTyped
  <2>8. OneHand'
    <3>1. \A d \in Callers : d # c /\ found[d] => csrfTok[d] # t \/ t \notin stored
      BY DEF OneHand
    <3>2. t \in stored => passed[t] = 0
      BY <2>5 DEF OneHand
    <3>3. /\ \A d \in Callers : found'[d] => csrfTok'[d] \notin stored'
          /\ \A d, e \in Callers : found'[d] /\ found'[e] /\ csrfTok'[d] = csrfTok'[e] => d = e
      BY <2>2, <2>3, <2>4, <3>1 DEF OneHand
    <3>4. /\ \A d \in Callers : found'[d] /\ csrfPc'[d] = "consumed" => passed[csrfTok'[d]] = 0
          /\ \A d \in Callers : csrfPc'[d] = "next" => passed[csrfTok'[d]] = 1
          /\ \A d \in Callers : csrfPc'[d] = "refused" /\ found'[d] => CT!Expired(csrfTok'[d])
          /\ \A u \in ApiTokens : u \in stored' \/ u \notin issued => passed[u] = 0
      BY <2>2, <2>3, <2>4, <3>2 DEF OneHand
    <3> QED BY <2>1, <3>3, <3>4 DEF OneHand, CT!Expired
  <2>9. GoneAreSpent'
    <3>1. \A u : Spent(u) => Spent(u)'
      BY <2>1, <2>3, <2>5 DEF Spent, CT!Expired
    <3>2. t \in stored => Spent(t)'
      BY <2>4 DEF Spent
    <3> QED BY <2>1, <2>2, <2>3, <2>4, <3>1, <3>2 DEF GoneAreSpent, Spent, CT!Expired
  <2> QED BY <2>6, <2>7, <2>8, <2>9
<1>5. ASSUME NEW c \in Callers, CT!Decide(c)
      PROVE  CsrfInv'
  <2>1. /\ csrfPc[c] = "consumed" /\ csrfTok[c] \in ApiTokens
        /\ UNCHANGED <<issued, stored, age, csrfTok, found>>
    BY <1>5 DEF CT!Decide, CallersTyped, CT!TypeOK
  <2>2. CASE found[c] /\ ~ CT!Expired(csrfTok[c])
    <3>0. passed[csrfTok[c]] = 0
      BY <2>1, <2>2 DEF OneHand
    <3>1. /\ csrfPc' = [csrfPc EXCEPT ![c] = "next"]
          /\ passed' = [passed EXCEPT ![csrfTok[c]] = 1]
      BY <1>5, <2>2, <3>0 DEF CT!Decide
    <3>2. CT!TypeOK' /\ CallersTyped'
      BY <2>1, <3>1 DEF CT!TypeOK, CallersTyped
    <3>3. OneHand'
      BY <2>1, <2>2, <3>1 DEF OneHand, CT!Expired, CT!TypeOK, CallersTyped
    <3>4. GoneAreSpent'
      BY <2>1, <2>2, <3>1 DEF GoneAreSpent, Spent, CT!Expired, CT!TypeOK, CallersTyped
    <3> QED BY <3>2, <3>3, <3>4
  <2>3. CASE ~ (found[c] /\ ~ CT!Expired(csrfTok[c]))
    <3>1. csrfPc' = [csrfPc EXCEPT ![c] = "refused"] /\ UNCHANGED passed
      BY <1>5, <2>3 DEF CT!Decide
    <3>2. CT!TypeOK' /\ CallersTyped'
      BY <2>1, <3>1 DEF CT!TypeOK, CallersTyped
    <3>3. OneHand'
      BY <2>1, <2>3, <3>1 DEF OneHand, CT!Expired, CT!TypeOK
    <3>4. Spent(csrfTok[c])
      BY <2>1, <2>3 DEF GoneAreSpent, Spent
    <3>5. GoneAreSpent'
      BY <2>1, <3>1, <3>4 DEF GoneAreSpent, Spent, CT!Expired, CT!TypeOK
    <3> QED BY <3>2, <3>3, <3>5
  <2> QED BY <2>2, <2>3
<1>6. ASSUME NEW c \in Callers, CT!Answered(c)
      PROVE  CsrfInv'
  <2>1. /\ csrfPc[c] \in {"next", "refused"} /\ csrfPc' = [csrfPc EXCEPT ![c] = "idle"]
        /\ csrfTok' = [csrfTok EXCEPT ![c] = NoToken] /\ found' = [found EXCEPT ![c] = FALSE]
        /\ UNCHANGED <<issued, stored, age, passed>>
    BY <1>6 DEF CT!Answered
  <2>2. \A d \in Callers : d # c =>
           csrfPc'[d] = csrfPc[d] /\ csrfTok'[d] = csrfTok[d] /\ found'[d] = found[d]
    BY <2>1 DEF CT!TypeOK
  <2>3. csrfPc'[c] = "idle" /\ csrfTok'[c] = NoToken /\ ~ found'[c]
    BY <2>1 DEF CT!TypeOK
  <2>4. CT!TypeOK'
    <3>1. found' \in [Callers -> BOOLEAN]
      BY <2>1 DEF CT!TypeOK
    <3> QED BY <2>1, <3>1 DEF CT!TypeOK
  <2>5. CallersTyped'
    BY <2>1, <2>2, <2>3 DEF CallersTyped
  <2>6. OneHand'
    BY <2>1, <2>2, <2>3 DEF OneHand, CT!Expired
  <2>7. \A t : Spent(t) => Spent(t)'
    <3>1. found[c] => CT!Expired(csrfTok[c]) \/ passed[csrfTok[c]] = 1
      BY <2>1 DEF OneHand
    <3> QED BY <2>1, <2>2, <3>1 DEF Spent, CT!Expired
  <2>8. GoneAreSpent'
    <3>1. \A d \in Callers : csrfPc'[d] # "idle" => d # c
      BY <2>3
    <3> QED BY <2>1, <2>2, <2>7, <3>1 DEF GoneAreSpent, Spent, CT!Expired
  <2> QED BY <2>4, <2>5, <2>6, <2>8
<1> QED BY <1>1, <1>2, <1>3, <1>4, <1>5, <1>6 DEF CT!Next

(* A token lets at most one request through and none is lost before its time *)
(* (TokensSingleUse), and a refusal is final only for a token that was spent *)
(* or is too old (RefusedWasSpent), for any number of tokens and requests.   *)
THEOREM TokensAreSingleUse ==
    CT!CsrfAssumption /\ CT!Spec => [](CT!TypeOK /\ CT!TokensSingleUse /\ CT!RefusedWasSpent)
<1> SUFFICES ASSUME CT!CsrfAssumption
             PROVE  CT!Spec => [](CT!TypeOK /\ CT!TokensSingleUse /\ CT!RefusedWasSpent)
  OBVIOUS
<1>1. CT!Init => CsrfInv
  BY CsrfInit
<1>2. CsrfInv /\ [CT!Next]_(CT!vars) => CsrfInv'
  BY CsrfStep
<1>3. CsrfInv => CT!TypeOK /\ CT!TokensSingleUse /\ CT!RefusedWasSpent
  <2> SUFFICES ASSUME CsrfInv PROVE CT!TypeOK /\ CT!TokensSingleUse /\ CT!RefusedWasSpent
    OBVIOUS
  <2>1. CT!TokensSingleUse
    BY DEF CsrfInv, CT!TokensSingleUse, CallersTyped, GoneAreSpent, Spent
  <2>2. ASSUME NEW c \in Callers, csrfPc[c] = "refused"
        PROVE  \/ CT!Expired(csrfTok[c]) \/ passed[csrfTok[c]] = 1
               \/ \E d \in Callers \ {c} : csrfTok[d] = csrfTok[c] /\ found[d]
    <3>1. found[c] => CT!Expired(csrfTok[c])
      BY <2>2 DEF CsrfInv, OneHand
    <3> QED BY <2>2, <3>1 DEF CsrfInv, GoneAreSpent, Spent
  <2> QED BY <2>1, <2>2 DEF CsrfInv, CT!RefusedWasSpent
<1> QED BY <1>1, <1>2, <1>3, PTL DEF CT!Spec

-----------------------------------------------------------------------------
(* RateLimits *)

LimitPcs == {"idle", "allow", "register", "refused", "stop", "init"}

(* Who registers a limiter or asks it has it in hand. *)
HandsAreFull ==
    /\ limitPc \in [Callers -> LimitPcs]
    /\ \A c \in Callers : limitPc[c] \in {"allow", "register"} => has[c] \in Limiters
    /\ \A h \in Handlers : once[h] # "no" => made[h] \in Limiters

LimitInv == RL!TypeOK /\ HandsAreFull /\ RL!LimitersCanBeStopped

LEMMA LimitInit == ASSUME RL!LimitAssumption, RL!Init PROVE LimitInv
<1>1. RL!NoEntry \in [age : RL!Ages, count : 0 .. Rate]
  BY DEF RL!NoEntry, RL!Ages, RL!LimitAssumption
<1>2. RL!TypeOK
  BY <1>1 DEF RL!Init, RL!TypeOK
<1> QED BY <1>2 DEF RL!Init, LimitInv, HandsAreFull, LimitPcs, RL!LimitersCanBeStopped

(* The entries stay in their bounds. *)
LEMMA EntryTypes ==
    ASSUME RL!LimitAssumption
    PROVE  /\ RL!NoEntry \in [age : RL!Ages, count : 0 .. Rate]
           /\ \A e \in [age : RL!Ages, count : 0 .. Rate] :
                 /\ RL!AllowEntry(e) \in [age : RL!Ages, count : 0 .. Rate]
                 /\ ~ RL!Expired(e) => [e EXCEPT !.age = @ + 1] \in [age : RL!Ages, count : 0 .. Rate]
<1>1. RL!Ages = 0 .. Window + 1 /\ Window \in Nat /\ Rate \in Nat \ {0}
  BY DEF RL!Ages, RL!LimitAssumption
<1>2. RL!NoEntry \in [age : RL!Ages, count : 0 .. Rate]
  BY <1>1 DEF RL!NoEntry
<1>3. ASSUME NEW e \in [age : RL!Ages, count : 0 .. Rate]
      PROVE  RL!AllowEntry(e) \in [age : RL!Ages, count : 0 .. Rate]
  <2>1. [age |-> 0, count |-> 1] \in [age : RL!Ages, count : 0 .. Rate]
    BY <1>1
  <2>2. ~ RL!Full(e) => RL!Counted(e) \in [age : RL!Ages, count : 0 .. Rate]
    BY <1>1 DEF RL!Full, RL!Counted
  <2> QED BY <2>1, <2>2 DEF RL!AllowEntry
<1>4. ASSUME NEW e \in [age : RL!Ages, count : 0 .. Rate], ~ RL!Expired(e)
      PROVE  [e EXCEPT !.age = @ + 1] \in [age : RL!Ages, count : 0 .. Rate]
  BY <1>1, <1>4 DEF RL!Expired
<1> QED BY <1>2, <1>3, <1>4

(* New limiters are in the hand or the slot they are made for. *)
LEMMA NewLimiterFacts ==
    ASSUME RL!LimitAssumption, LimitInv, NEW L \in SUBSET Limiters, RL!NewRateLimiters(L)
    PROVE  /\ life' \in [Limiters -> {"live", "cancelled", "gone"}]
           /\ visitors' \in [Limiters -> [Visitors -> [age : RL!Ages, count : 0 .. Rate]]]
           /\ \A l \in Limiters : life'[l] = "live" => l \in L \/ life[l] = "live"
           /\ \A l \in L : life[l] = "gone" /\ l \notin custom
BY EntryTypes DEF RL!NewRateLimiters, RL!Unused, LimitInv, RL!TypeOK

LEMMA LimitStep == ASSUME RL!LimitAssumption, LimitInv, [RL!Next]_(RL!vars) PROVE LimitInv'
<1> USE DEF LimitInv, HandsAreFull, LimitPcs
<1>1. CASE UNCHANGED RL!vars
  BY <1>1 DEF RL!vars, RL!TypeOK, RL!LimitersCanBeStopped, RL!Ages
<1>2. CASE RL!Tick
  <2>1. UNCHANGED <<life, slot, custom, holder, once, made, limitPc, has>>
    BY <1>2 DEF RL!Tick, RL!registry, RL!closures
  <2>2. visitors' \in [Limiters -> [Visitors -> [age : RL!Ages, count : 0 .. Rate]]]
    <3>1. visitors' = [l \in Limiters |-> [v \in Visitors |->
             IF visitors[l][v] = RL!NoEntry \/ RL!Expired(visitors[l][v]) THEN visitors[l][v]
             ELSE [visitors[l][v] EXCEPT !.age = @ + 1]]]
      BY <1>2 DEF RL!Tick
    <3>2. \A l \in Limiters, v \in Visitors : visitors[l][v] \in [age : RL!Ages, count : 0 .. Rate]
      BY DEF RL!TypeOK
    <3> QED BY <3>1, <3>2, EntryTypes
  <2> QED BY <2>1, <2>2 DEF RL!TypeOK, RL!LimitersCanBeStopped, RL!Ages
<1>3. ASSUME NEW c \in Callers, RL!StopBegin(c) \/ RL!InitBegin(c)
      PROVE  LimitInv'
  <2>1. /\ limitPc[c] = "idle" /\ limitPc' \in {[limitPc EXCEPT ![c] = "stop"], [limitPc EXCEPT ![c] = "init"]}
        /\ holder' = c /\ UNCHANGED <<visitors, life, slot, custom, once, made, has>>
    BY <1>3 DEF RL!StopBegin, RL!InitBegin, RL!Lock, RL!Goto, RL!closures
  <2>2. RL!TypeOK'
    BY <2>1 DEF RL!TypeOK, RL!Ages
  <2>3. HandsAreFull'
    BY <2>1
  <2>4. RL!LimitersCanBeStopped'
    BY <2>1 DEF RL!LimitersCanBeStopped
  <2> QED BY <2>2, <2>3, <2>4
<1>4. ASSUME NEW c \in Callers, RL!StopOne(c)
      PROVE  LimitInv'
  BY <1>4 DEF RL!StopOne, RL!Cancel, RL!registry, RL!closures, RL!TypeOK,
     RL!LimitersCanBeStopped, RL!Ages
<1>5. ASSUME NEW c \in Callers, RL!StopEnd(c)
      PROVE  LimitInv'
  <2>1. /\ \A s \in Slots : slot[s] = NoLimiter \/ life[slot[s]] = "gone"
        /\ \A l \in custom : l = NoLimiter \/ life[l] = "gone"
        /\ NoLimiter \notin Limiters
    BY <1>5 DEF RL!StopEnd, RL!Stopped, RL!LimitAssumption
  <2>2. /\ limitPc[c] = "stop" /\ limitPc' = [limitPc EXCEPT ![c] = "idle"]
        /\ slot' = [s \in Slots |-> NoLimiter] /\ custom' = {} /\ holder' = NoCaller
        /\ UNCHANGED <<visitors, life, once, made, has>>
    BY <1>5 DEF RL!StopEnd, RL!Unlock, RL!Goto, RL!closures
  <2>3. RL!TypeOK'
    BY <2>2 DEF RL!TypeOK, RL!Ages
  <2> QED BY <2>1, <2>2, <2>3 DEF RL!TypeOK, RL!LimitersCanBeStopped
<1>6. ASSUME NEW c \in Callers, RL!InitEnd(c)
      PROVE  LimitInv'
  <2>1. /\ \A s \in Slots : slot[s] = NoLimiter \/ life[slot[s]] = "gone"
        /\ NoLimiter \notin Limiters
    BY <1>6 DEF RL!InitEnd, RL!AllStopped, RL!Stopped, RL!LimitAssumption
  <2>2. /\ limitPc[c] = "init" /\ limitPc' = [limitPc EXCEPT ![c] = "idle"] /\ holder' = NoCaller
        /\ UNCHANGED <<custom, once, made, has>>
    BY <1>6 DEF RL!InitEnd, RL!Unlock, RL!Goto, RL!closures
  <2>3. PICK f \in [Slots -> Limiters] : RL!NewRateLimiters(RL!Range(f)) /\ slot' = f
    BY <1>6 DEF RL!InitEnd
  <2>4. RL!Range(f) \in SUBSET Limiters /\ \A l \in RL!Range(f) : \E s \in Slots : f[s] = l
    BY DEF RL!Range
  <2>5. /\ life' \in [Limiters -> {"live", "cancelled", "gone"}]
        /\ visitors' \in [Limiters -> [Visitors -> [age : RL!Ages, count : 0 .. Rate]]]
        /\ \A l \in Limiters : life'[l] = "live" => l \in RL!Range(f) \/ life[l] = "live"
    BY <2>3, <2>4, NewLimiterFacts
  <2>6. RL!TypeOK'
    BY <2>2, <2>3, <2>5 DEF RL!TypeOK, RL!Ages
  <2>7. HandsAreFull'
    BY <2>2
  <2>8. ASSUME NEW l \in Limiters, life'[l] = "live"
        PROVE  \/ \E s \in Slots : slot'[s] = l
               \/ l \in custom'
               \/ \E d \in Callers : limitPc'[d] = "register" /\ has'[d] = l
    <3>1. CASE l \in RL!Range(f)
      BY <2>3, <2>4, <3>1
    <3>2. CASE life[l] = "live"
      BY <2>1, <2>2, <3>2 DEF RL!LimitersCanBeStopped
    <3> QED BY <2>5, <2>8, <3>1, <3>2
  <2> QED BY <2>6, <2>7, <2>8 DEF RL!LimitersCanBeStopped
<1>7. ASSUME NEW c \in Callers, RL!Answered(c)
      PROVE  LimitInv'
  BY <1>7 DEF RL!Answered, RL!Goto, RL!registry, RL!closures, RL!TypeOK,
     RL!LimitersCanBeStopped, RL!Ages
<1>8. ASSUME NEW c \in Callers, NEW s \in Slots, RL!Instance(c, s)
      PROVE  LimitInv'
  <2>1. /\ limitPc[c] = "idle" /\ limitPc' = [limitPc EXCEPT ![c] = "allow"]
        /\ UNCHANGED <<custom, holder, once, made>>
    BY <1>8 DEF RL!Instance, RL!Goto, RL!closures
  <2>2. CASE slot[s] # NoLimiter
    <3>1. has' = [has EXCEPT ![c] = slot[s]] /\ UNCHANGED <<life, visitors, slot>>
      BY <1>8, <2>2 DEF RL!Instance, RL!Take, RL!objects
    <3>2. RL!TypeOK'
      BY <2>1, <3>1 DEF RL!TypeOK, RL!Ages
    <3>3. slot[s] \in Limiters
      BY <2>2 DEF RL!TypeOK
    <3>4. HandsAreFull'
      BY <2>1, <3>1, <3>3 DEF RL!TypeOK
    <3>5. RL!LimitersCanBeStopped'
      BY <2>1, <3>1 DEF RL!LimitersCanBeStopped, RL!TypeOK
    <3> QED BY <3>2, <3>4, <3>5
  <2>3. CASE slot[s] = NoLimiter
    <3>1. PICK l \in Limiters : /\ RL!NewRateLimiters({l}) /\ has' = [has EXCEPT ![c] = l]
                                /\ slot' = [slot EXCEPT ![s] = l]
      BY <1>8, <2>3 DEF RL!Instance, RL!Take, RL!NewRateLimiter
    <3>2. /\ life' \in [Limiters -> {"live", "cancelled", "gone"}]
          /\ visitors' \in [Limiters -> [Visitors -> [age : RL!Ages, count : 0 .. Rate]]]
          /\ \A m \in Limiters : life'[m] = "live" => m = l \/ life[m] = "live"
      BY <3>1, NewLimiterFacts
    <3>3. RL!TypeOK'
      BY <2>1, <3>1, <3>2 DEF RL!TypeOK, RL!Ages
    <3>4. NoLimiter \notin Limiters
      BY DEF RL!LimitAssumption
    <3>5. HandsAreFull'
      BY <2>1, <3>1 DEF RL!TypeOK
    <3>6. ASSUME NEW m \in Limiters, life'[m] = "live"
          PROVE  \/ \E x \in Slots : slot'[x] = m
                 \/ m \in custom'
                 \/ \E d \in Callers : limitPc'[d] = "register" /\ has'[d] = m
      <4>1. CASE m = l
        BY <3>1, <4>1 DEF RL!TypeOK
      <4>2. CASE life[m] = "live" /\ m # l
        <5>1. ASSUME NEW x \in Slots, slot[x] = m
              PROVE  slot'[x] = m
          BY <2>3, <3>1, <3>4, <5>1 DEF RL!TypeOK
        <5>2. ASSUME NEW d \in Callers, limitPc[d] = "register", has[d] = m
              PROVE  limitPc'[d] = "register" /\ has'[d] = m
          BY <2>1, <3>1, <5>2 DEF RL!TypeOK
        <5> QED BY <2>1, <4>2, <5>1, <5>2 DEF RL!LimitersCanBeStopped
      <4> QED BY <3>2, <3>6, <4>1, <4>2
    <3> QED BY <3>3, <3>5, <3>6 DEF RL!LimitersCanBeStopped
  <2> QED BY <2>2, <2>3
<1>9. ASSUME NEW c \in Callers, NEW h \in Handlers, RL!CustomCreate(c, h)
      PROVE  LimitInv'
  <2>1. /\ limitPc[c] = "idle" /\ limitPc' = [limitPc EXCEPT ![c] = "register"]
        /\ once' = [once EXCEPT ![h] = "doing"] /\ UNCHANGED <<slot, custom, holder>>
    BY <1>9 DEF RL!CustomCreate, RL!Goto, RL!registry
  <2>2. PICK l \in Limiters : /\ RL!NewRateLimiters({l}) /\ has' = [has EXCEPT ![c] = l]
                              /\ made' = [made EXCEPT ![h] = l]
    BY <1>9 DEF RL!CustomCreate, RL!Take, RL!NewRateLimiter
  <2>3. /\ life' \in [Limiters -> {"live", "cancelled", "gone"}]
        /\ visitors' \in [Limiters -> [Visitors -> [age : RL!Ages, count : 0 .. Rate]]]
        /\ \A m \in Limiters : life'[m] = "live" => m = l \/ life[m] = "live"
    BY <2>2, NewLimiterFacts
  <2>4. RL!TypeOK'
    BY <2>1, <2>2, <2>3 DEF RL!TypeOK, RL!Ages
  <2> QED BY <2>1, <2>2, <2>3, <2>4 DEF RL!TypeOK, RL!LimitersCanBeStopped
<1>10. ASSUME NEW c \in Callers, NEW h \in Handlers, RL!CustomRegister(c, h)
      PROVE  LimitInv'
  <2>1. /\ limitPc[c] = "register" /\ limitPc' = [limitPc EXCEPT ![c] = "allow"]
        /\ made[h] = has[c] /\ custom' = custom \cup {has[c]}
        /\ once' = [once EXCEPT ![h] = "done"]
        /\ UNCHANGED <<visitors, life, slot, holder, made, has>>
    BY <1>10 DEF RL!CustomRegister, RL!RegisterCustom, RL!Goto
  <2>2. custom' \subseteq Limiters
    BY <2>1 DEF RL!TypeOK
  <2>3. RL!TypeOK'
    BY <2>1, <2>2 DEF RL!TypeOK, RL!Ages
  <2> QED BY <2>1, <2>3 DEF RL!TypeOK, RL!LimitersCanBeStopped
<1>11. ASSUME NEW c \in Callers, NEW h \in Handlers, RL!CustomLater(c, h)
      PROVE  LimitInv'
  BY <1>11 DEF RL!CustomLater, RL!Take, RL!Goto, RL!registry, RL!closures, RL!TypeOK,
     RL!LimitersCanBeStopped, RL!Ages
<1>12. ASSUME NEW c \in Callers, NEW v \in Visitors, RL!Allow(c, v)
      PROVE  LimitInv'
  <2>1. /\ limitPc[c] = "allow" /\ has[c] \in Limiters
        /\ limitPc' \in {[limitPc EXCEPT ![c] = "idle"], [limitPc EXCEPT ![c] = "refused"]}
        /\ has' = [has EXCEPT ![c] = NoLimiter]
        /\ UNCHANGED <<life, slot, custom, holder, once, made>>
    BY <1>12 DEF RL!Allow, RL!Goto, RL!Take, RL!registry, RL!closures
  <2>2. visitors' = [visitors EXCEPT ![has[c]][v] = RL!AllowEntry(visitors[has[c]][v])]
    BY <1>12 DEF RL!Allow
  <2>3. visitors[has[c]][v] \in [age : RL!Ages, count : 0 .. Rate]
    BY <2>1 DEF RL!TypeOK
  <2>4. visitors' \in [Limiters -> [Visitors -> [age : RL!Ages, count : 0 .. Rate]]]
    BY <2>2, <2>3, EntryTypes DEF RL!TypeOK
  <2>5. RL!TypeOK'
    BY <2>1, <2>4 DEF RL!TypeOK, RL!Ages
  <2>6. HandsAreFull'
    BY <2>1
  <2>7. RL!LimitersCanBeStopped'
    BY <2>1, ZenonT(40) DEF RL!LimitersCanBeStopped, RL!TypeOK
  <2> QED BY <2>5, <2>6, <2>7
<1>13. ASSUME NEW l \in Limiters, RL!Cleanup(l)
      PROVE  LimitInv'
  <2>1. UNCHANGED <<life, slot, custom, holder, once, made, limitPc, has>>
    BY <1>13 DEF RL!Cleanup, RL!registry, RL!closures
  <2>2. visitors' \in [Limiters -> [Visitors -> [age : RL!Ages, count : 0 .. Rate]]]
    BY <1>13, EntryTypes DEF RL!Cleanup, RL!TypeOK
  <2> QED BY <2>1, <2>2 DEF RL!TypeOK, RL!LimitersCanBeStopped, RL!Ages
<1>14. ASSUME NEW l \in Limiters, RL!CleanupExit(l)
      PROVE  LimitInv'
  BY <1>14 DEF RL!CleanupExit, RL!registry, RL!closures, RL!TypeOK,
     RL!LimitersCanBeStopped, RL!Ages
<1> QED BY <1>1, <1>2, <1>3, <1>4, <1>5, <1>6, <1>7, <1>8, <1>9, <1>10, <1>11, <1>12,
           <1>13, <1>14 DEF RL!Next

(* Every cleanup goroutine can still be stopped, whatever requests, Init and *)
(* Stop do at once (LimitersCanBeStopped).                                   *)
THEOREM LimitersStayStoppable ==
    RL!LimitAssumption /\ RL!Spec => [](RL!TypeOK /\ RL!LimitersCanBeStopped)
<1> SUFFICES ASSUME RL!LimitAssumption
             PROVE  RL!Spec => [](RL!TypeOK /\ RL!LimitersCanBeStopped)
  OBVIOUS
<1>1. RL!Init => LimitInv
  BY LimitInit
<1>2. LimitInv /\ [RL!Next]_(RL!vars) => LimitInv'
  BY LimitStep
<1>3. LimitInv => RL!TypeOK /\ RL!LimitersCanBeStopped
  BY DEF LimitInv
<1> QED BY <1>1, <1>2, <1>3, PTL DEF RL!Spec

-----------------------------------------------------------------------------
(* RateLimits: bursts *)

LEMMA LimitSums == ASSUME NEW f, NEW n PROVE RL!Total(f, n) = Total(f, n)
BY DEF RL!Total, RL!Sums, Total, Sums

Opens(e) == e = RL!NoEntry \/ RL!Expired(e)      \* the next request opens a window

(* An open window began with a request at its age and counts what was let    *)
(* through since; what else is in the history is less than Rate, because the *)
(* request that began the window before is no longer in it.                  *)
WindowOk(e, A) ==
    IF Opens(e) THEN A[0] = 0 /\ Total(A, Window) < Rate
    ELSE /\ e.count > 0 /\ A[e.age] > 0 /\ Total(A, e.age) = e.count
         /\ Total(A, Window) < Rate + e.count

Entries == [age : RL!Ages, count : 0 .. Rate]
Histories == [0 .. Window -> Nat]

LEMMA WindowTypes ==
    ASSUME RL!LimitAssumption, NEW e \in Entries, NEW A \in Histories
    PROVE  /\ Window \in Nat /\ Window > 0 /\ Rate \in Nat /\ Rate > 0
           /\ e.age \in 0 .. Window + 1 /\ e.count \in 0 .. Rate
           /\ \A a \in 0 .. Window : A[a] \in Nat
           /\ RL!Expired(e) <=> e.age > Window
           /\ ~ Opens(e) => e.age \in 0 .. Window
           /\ \A a \in 0 .. Window : Total(A, a) \in Nat /\ Total(A, a) <= Total(A, Window)
<1>1. /\ Window \in Nat /\ Window > 0 /\ Rate \in Nat /\ Rate > 0
      /\ e.age \in 0 .. Window + 1 /\ e.count \in 0 .. Rate
      /\ \A a \in 0 .. Window : A[a] \in Nat
  BY DEF RL!LimitAssumption, Entries, Histories, RL!Ages
<1>2. \A a \in 0 .. Window : Total(A, a) \in Nat
  BY <1>1, TotalIs
<1>3. \A a \in 0 .. Window : Total(A, a) <= Total(A, Window)
  BY <1>1, TotalOfMore
<1> QED BY <1>1, <1>2, <1>3 DEF Opens, RL!Expired

LEMMA AdmitKeepsWindow ==
    ASSUME RL!LimitAssumption, NEW e \in Entries, NEW A \in Histories, WindowOk(e, A), RL!Admits(e)
    PROVE  WindowOk(RL!AllowEntry(e), [A EXCEPT ![0] = @ + 1])
<1> DEFINE B == [A EXCEPT ![0] = @ + 1]
<1>1. /\ Window \in Nat /\ Window > 0 /\ Rate \in Nat /\ Rate > 0
      /\ e.age \in 0 .. Window + 1 /\ e.count \in 0 .. Rate
      /\ \A a \in 0 .. Window : A[a] \in Nat
      /\ RL!Expired(e) <=> e.age > Window
      /\ ~ Opens(e) => e.age \in 0 .. Window
      /\ \A a \in 0 .. Window : Total(A, a) \in Nat
  BY WindowTypes
<1>2. \A a \in 0 .. Window : B[a] = IF a = 0 THEN A[a] + 1 ELSE A[a]
  BY <1>1 DEF Histories
<1> HIDE DEF B
<1>3. \A a \in 0 .. Window : Total(B, a) = Total(A, a) + 1
  BY <1>1, <1>2, TotalOfOneMore
<1>4. CASE Opens(e)
  <2>1. RL!AllowEntry(e) = [age |-> 0, count |-> 1]
    BY <1>4 DEF Opens, RL!AllowEntry
  <2>2. ~ Opens([age |-> 0, count |-> 1])
    BY <1>1 DEF Opens, RL!Expired, RL!NoEntry
  <2>3. Total(B, 0) = 1 /\ B[0] = 1 /\ Total(B, Window) < Rate + 1
    <3>1. Total(A, 0) = A[0]
      BY <1>1, TotalIs
    <3> QED BY <1>1, <1>2, <1>3, <1>4, <3>1 DEF WindowOk
  <2> QED BY <2>1, <2>2, <2>3 DEF WindowOk, B
<1>5. CASE ~ Opens(e)
  <2>1. RL!AllowEntry(e) = RL!Counted(e) /\ e.count < Rate
    BY <1>1, <1>5 DEF Opens, RL!AllowEntry, RL!Admits, RL!Full
  <2>2. RL!Counted(e).age = e.age /\ RL!Counted(e).count = e.count + 1 /\ ~ Opens(RL!Counted(e))
    BY <1>1, <1>5 DEF Opens, RL!Counted, RL!Expired, RL!NoEntry, Entries
  <2>3. /\ Total(B, e.age) = e.count + 1 /\ B[e.age] > 0
        /\ Total(B, Window) < Rate + (e.count + 1)
    BY <1>1, <1>2, <1>3, <1>5 DEF WindowOk
  <2> QED BY <1>1, <2>1, <2>2, <2>3 DEF WindowOk, B
<1> QED BY <1>4, <1>5

LEMMA TickKeepsWindow ==
    ASSUME RL!LimitAssumption, NEW e \in Entries, NEW A \in Histories, WindowOk(e, A)
    PROVE  WindowOk(IF Opens(e) THEN e ELSE [e EXCEPT !.age = @ + 1],
                    [a \in 0 .. Window |-> IF a = 0 THEN 0 ELSE A[a - 1]])
<1> DEFINE B == [a \in 0 .. Window |-> IF a = 0 THEN 0 ELSE A[a - 1]]
           f == [e EXCEPT !.age = @ + 1]
<1>1. /\ Window \in Nat /\ Window > 0 /\ Rate \in Nat /\ Rate > 0
      /\ e.age \in 0 .. Window + 1 /\ e.count \in 0 .. Rate
      /\ \A a \in 0 .. Window : A[a] \in Nat
      /\ RL!Expired(e) <=> e.age > Window
      /\ ~ Opens(e) => e.age \in 0 .. Window
      /\ \A a \in 0 .. Window : Total(A, a) \in Nat /\ Total(A, a) <= Total(A, Window)
  BY WindowTypes
<1>2. B[0] = 0 /\ \A a \in 0 .. Window - 1 : B[a + 1] = A[a]
  BY <1>1
<1> HIDE DEF B
<1>3. \A a \in 0 .. Window - 1 : Total(B, a + 1) = Total(A, a)
  BY <1>1, <1>2, TotalShifted
<1>4. Total(B, Window) = Total(A, Window - 1) /\ Window - 1 \in 0 .. Window
  BY <1>1, <1>3, (Window - 1) + 1 = Window
<1>5. Total(A, Window) = Total(A, Window - 1) + A[Window]
  BY <1>1, TotalIs
<1>6. CASE Opens(e)
  BY <1>1, <1>2, <1>4, <1>6 DEF WindowOk, B
<1>7. CASE ~ Opens(e)
  <2>1. f.age = e.age + 1 /\ f.count = e.count /\ f # RL!NoEntry
    BY <1>1, <1>7 DEF Entries, RL!NoEntry
  <2>2. CASE e.age = Window
    <3>1. Opens(f)
      BY <1>1, <2>1, <2>2 DEF Opens, RL!Expired
    <3>2. B[0] = 0 /\ Total(B, Window) < Rate
      BY <1>1, <1>2, <1>4, <1>5, <1>7, <2>2 DEF WindowOk
    <3> QED BY <1>7, <3>1, <3>2 DEF WindowOk, B
  <2>3. CASE e.age # Window
    <3>1. e.age \in 0 .. Window - 1 /\ ~ Opens(f)
      BY <1>1, <1>7, <2>1, <2>3 DEF Opens, RL!Expired
    <3>2. /\ f.count > 0 /\ B[f.age] > 0 /\ Total(B, f.age) = f.count
          /\ Total(B, Window) < Rate + f.count
      BY <1>1, <1>2, <1>3, <1>4, <1>7, <2>1, <3>1 DEF WindowOk
    <3> HIDE DEF f
    <3> QED BY <1>7, <3>1, <3>2 DEF WindowOk, B, f
  <2> QED BY <2>2, <2>3
<1> QED BY <1>6, <1>7

LEMMA NoRequestsOk == ASSUME RL!LimitAssumption PROVE WindowOk(RL!NoEntry, RL!NoRequests)
<1>1. /\ Window \in Nat /\ Rate \in Nat /\ Rate > 0
      /\ \A a \in 0 .. Window : RL!NoRequests[a] = 0
  BY DEF RL!LimitAssumption, RL!NoRequests
<1>2. Total(RL!NoRequests, Window) = 0
  BY <1>1, TotalOfNothing
<1> QED BY <1>1, <1>2 DEF WindowOk, Opens

LEMMA OneMoreIsHistory ==
    ASSUME NEW A \in Histories, 0 \in 0 .. Window PROVE [A EXCEPT ![0] = @ + 1] \in Histories
BY DEF Histories

(* Every visitor of every limiter. *)
BurstInv ==
    /\ LimitInv
    /\ letThrough \in [Limiters -> [Visitors -> Histories]]
    /\ \A l \in Limiters, v \in Visitors : WindowOk(visitors[l][v], letThrough[l][v])

LEMMA BurstInit == ASSUME RL!LimitAssumption, RL!Init PROVE BurstInv
<1>1. RL!NoRequests \in Histories
  BY DEF RL!NoRequests, Histories, RL!LimitAssumption
<1> QED BY <1>1, LimitInit, NoRequestsOk DEF RL!Init, BurstInv

LEMMA BurstStep == ASSUME RL!LimitAssumption, BurstInv, [RL!Next]_(RL!vars) PROVE BurstInv'
<1>0. LimitInv'
  BY LimitStep DEF BurstInv
<1>1. /\ visitors \in [Limiters -> [Visitors -> Entries]]
      /\ letThrough \in [Limiters -> [Visitors -> Histories]]
      /\ \A l \in Limiters, v \in Visitors :
            /\ visitors[l][v] \in Entries /\ letThrough[l][v] \in Histories
            /\ WindowOk(visitors[l][v], letThrough[l][v])
  BY DEF BurstInv, LimitInv, RL!TypeOK, Entries
<1>2. ASSUME UNCHANGED <<visitors, letThrough>> PROVE BurstInv'
  BY <1>0, <1>1, <1>2 DEF BurstInv
<1>3. ASSUME NEW L \in SUBSET Limiters, RL!NewRateLimiters(L) PROVE BurstInv'
  <2>1. RL!NoRequests \in Histories
    BY DEF RL!NoRequests, Histories, RL!LimitAssumption
  <2>2. letThrough' \in [Limiters -> [Visitors -> Histories]]
    BY <1>1, <1>3, <2>1 DEF RL!NewRateLimiters
  <2>3. \A l \in Limiters, v \in Visitors : WindowOk(visitors'[l][v], letThrough'[l][v])
    BY <1>1, <1>3, NoRequestsOk DEF RL!NewRateLimiters
  <2> QED BY <1>0, <2>2, <2>3 DEF BurstInv
<1>4. ASSUME NEW c \in Callers, NEW v \in Visitors, RL!Allow(c, v) PROVE BurstInv'
  <2> DEFINE l == has[c]
             e == visitors[l][v]
             A == letThrough[l][v]
  <2>1. /\ l \in Limiters /\ visitors' = [visitors EXCEPT ![l][v] = RL!AllowEntry(e)]
        /\ letThrough' = IF RL!Admits(e) THEN [letThrough EXCEPT ![l][v][0] = @ + 1] ELSE letThrough
    BY <1>4 DEF RL!Allow, BurstInv, LimitInv, HandsAreFull
  <2>2. e \in Entries /\ A \in Histories /\ WindowOk(e, A) /\ 0 \in 0 .. Window
    BY <1>1, <2>1 DEF RL!LimitAssumption
  <2>3. CASE RL!Admits(e)
    <3>1. letThrough' = [letThrough EXCEPT ![l][v] = [A EXCEPT ![0] = @ + 1]]
      BY <2>1, <2>3
    <3>2. [A EXCEPT ![0] = @ + 1] \in Histories
      BY <2>2, OneMoreIsHistory
    <3>3. letThrough' \in [Limiters -> [Visitors -> Histories]]
      BY <1>1, <2>1, <3>1, <3>2
    <3>4. WindowOk(RL!AllowEntry(e), [A EXCEPT ![0] = @ + 1])
      BY <2>2, <2>3, AdmitKeepsWindow
    <3>5. \A m \in Limiters, w \in Visitors : WindowOk(visitors'[m][w], letThrough'[m][w])
      <4> SUFFICES ASSUME NEW m \in Limiters, NEW w \in Visitors
                   PROVE  WindowOk(visitors'[m][w], letThrough'[m][w])
        OBVIOUS
      <4>1. CASE m = l /\ w = v
        <5>1. visitors'[l][v] = RL!AllowEntry(e)
          <6> HIDE DEF e, A, l
          <6> QED BY <1>1, <2>1
        <5>2. letThrough'[l][v] = [A EXCEPT ![0] = @ + 1]
          <6> DEFINE B == [A EXCEPT ![0] = @ + 1]
          <6> HIDE DEF e, A, l, B
          <6>1. letThrough' = [letThrough EXCEPT ![l][v] = B]
            BY <3>1 DEF B
          <6>2. letThrough'[l][v] = B
            BY <1>1, <2>1, <6>1
          <6> QED BY <6>2 DEF B
        <5> QED BY <3>4, <4>1, <5>1, <5>2
      <4>2. CASE m # l \/ w # v
        <5>1. visitors'[m][w] = visitors[m][w] /\ letThrough'[m][w] = letThrough[m][w]
          <6> HIDE DEF e, A
          <6> QED BY <1>1, <2>1, <3>1, <4>2
        <5> QED BY <1>1, <5>1
      <4> QED BY <4>1, <4>2
    <3> QED BY <1>0, <3>3, <3>5 DEF BurstInv
  <2>4. CASE ~ RL!Admits(e)
    <3>1. RL!AllowEntry(e) = e
      BY <2>4 DEF RL!Admits, RL!AllowEntry
    <3>2. visitors' = visitors /\ letThrough' = letThrough
      BY <1>1, <2>1, <2>4, <3>1
    <3> QED BY <1>2, <3>2
  <2> QED BY <2>3, <2>4
<1>5. ASSUME NEW l \in Limiters, RL!Cleanup(l) PROVE BurstInv'
  <2>1. /\ letThrough' = letThrough
        /\ visitors' = [visitors EXCEPT ![l] =
              [v \in Visitors |-> IF RL!Expired(@[v]) THEN RL!NoEntry ELSE @[v]]]
    BY <1>5 DEF RL!Cleanup
  <2>2. ASSUME NEW m \in Limiters, NEW v \in Visitors
        PROVE  \/ visitors'[m][v] = visitors[m][v]
               \/ RL!Expired(visitors[m][v]) /\ visitors'[m][v] = RL!NoEntry
    BY <1>1, <2>1
  <2>3. \A m \in Limiters, v \in Visitors : WindowOk(visitors'[m][v], letThrough'[m][v])
    BY <1>1, <2>1, <2>2 DEF WindowOk, Opens
  <2> QED BY <1>0, <1>1, <2>1, <2>3 DEF BurstInv
<1>6. CASE RL!Tick
  <2> DEFINE Older(A) == [a \in 0 .. Window |-> IF a = 0 THEN 0 ELSE A[a - 1]]
             Aged(e) == IF Opens(e) THEN e ELSE [e EXCEPT !.age = @ + 1]
  <2>1. \A l \in Limiters, v \in Visitors : /\ visitors'[l][v] = Aged(visitors[l][v])
                                            /\ letThrough'[l][v] = Older(letThrough[l][v])
    BY <1>6 DEF RL!Tick, Opens
  <2>2. letThrough' = [l \in Limiters |-> [v \in Visitors |-> Older(letThrough[l][v])]]
    BY <1>6 DEF RL!Tick
  <2>3. ASSUME NEW A \in Histories PROVE Older(A) \in Histories
    BY DEF Histories, RL!LimitAssumption
  <2>4. ASSUME NEW e \in Entries, NEW A \in Histories, WindowOk(e, A)
        PROVE  WindowOk(Aged(e), Older(A))
    BY <2>4, TickKeepsWindow
  <2> HIDE DEF Older, Aged
  <2>5. letThrough' \in [Limiters -> [Visitors -> Histories]]
    BY <1>1, <2>2, <2>3
  <2>6. \A l \in Limiters, v \in Visitors : WindowOk(visitors'[l][v], letThrough'[l][v])
    BY <1>1, <2>1, <2>4
  <2> QED BY <1>0, <2>5, <2>6 DEF BurstInv
<1>7. ASSUME NEW c \in Callers,
             \/ RL!StopBegin(c) \/ RL!InitBegin(c) \/ RL!StopOne(c) \/ RL!StopEnd(c) \/ RL!Answered(c)
             \/ \E h \in Handlers : RL!CustomRegister(c, h) \/ RL!CustomLater(c, h)
      PROVE  BurstInv'
  BY <1>2, <1>7 DEF RL!StopBegin, RL!InitBegin, RL!Lock, RL!StopOne, RL!StopEnd, RL!Answered,
                    RL!CustomRegister, RL!CustomLater
<1>8. ASSUME NEW c \in Callers, \/ RL!InitEnd(c)
                                \/ \E s \in Slots : RL!Instance(c, s)
                                \/ \E h \in Handlers : RL!CustomCreate(c, h)
      PROVE  BurstInv'
  <2>1. CASE RL!InitEnd(c)
    <3>1. PICK f \in [Slots -> Limiters] : RL!NewRateLimiters(RL!Range(f))
      BY <2>1 DEF RL!InitEnd
    <3>2. RL!Range(f) \in SUBSET Limiters
      BY DEF RL!Range
    <3> QED BY <1>3, <3>1, <3>2
  <2>2. ASSUME NEW s \in Slots, RL!Instance(c, s) PROVE BurstInv'
    BY <1>2, <1>3, <2>2 DEF RL!Instance, RL!objects, RL!NewRateLimiter
  <2>3. ASSUME NEW h \in Handlers, RL!CustomCreate(c, h) PROVE BurstInv'
    BY <1>3, <2>3 DEF RL!CustomCreate, RL!NewRateLimiter
  <2> QED BY <1>8, <2>1, <2>2, <2>3
<1>9. ASSUME NEW l \in Limiters, RL!CleanupExit(l) PROVE BurstInv'
  BY <1>2, <1>9 DEF RL!CleanupExit
<1>10. CASE UNCHANGED RL!vars
  BY <1>2, <1>10 DEF RL!vars
<1> QED BY <1>4, <1>5, <1>6, <1>7, <1>8, <1>9, <1>10 DEF RL!Next

(* In no span of one window does a limiter let a visitor through twice Rate  *)
(* times (BurstBound).                                                       *)
THEOREM BurstsAreBounded == RL!LimitAssumption /\ RL!Spec => [](RL!TypeOK /\ RL!BurstBound)
<1> SUFFICES ASSUME RL!LimitAssumption PROVE RL!Spec => [](RL!TypeOK /\ RL!BurstBound)
  OBVIOUS
<1>1. ASSUME BurstInv PROVE RL!TypeOK /\ RL!BurstBound
  <2>1. ASSUME NEW l \in Limiters, NEW v \in Visitors PROVE RL!Through(l, v) < 2 * Rate
    <3>1. /\ visitors[l][v] \in Entries /\ letThrough[l][v] \in Histories
          /\ WindowOk(visitors[l][v], letThrough[l][v])
      BY <1>1 DEF BurstInv, LimitInv, RL!TypeOK, Entries
    <3>2. /\ Rate \in Nat /\ Rate > 0 /\ visitors[l][v].count \in 0 .. Rate /\ Window \in Nat
          /\ Total(letThrough[l][v], Window) \in Nat
      BY <3>1, WindowTypes
    <3>3. RL!Through(l, v) = Total(letThrough[l][v], Window)
      BY LimitSums DEF RL!Through
    <3> QED BY <3>1, <3>2, <3>3 DEF WindowOk
  <2> QED BY <1>1, <2>1 DEF BurstInv, LimitInv, RL!BurstBound
<1>2. RL!Init => BurstInv
  BY BurstInit
<1>3. BurstInv /\ [RL!Next]_(RL!vars) => BurstInv'
  BY BurstStep
<1> QED BY <1>1, <1>2, <1>3, PTL DEF RL!Spec

(* Who is refused has had Rate requests let through within the last window   *)
(* (RefusedOnlyWhenFull).                                                    *)
LEMMA RefusalStep ==
    ASSUME RL!LimitAssumption, BurstInv, [RL!Next]_(RL!vars), NEW c \in Callers,
           limitPc[c] = "allow", limitPc'[c] = "refused"
    PROVE  \E v \in Visitors : RL!Through(has[c], v) >= Rate
<1>1. limitPc \in [Callers -> LimitPcs]
  BY DEF BurstInv, LimitInv, HandsAreFull
<1>2. PICK v \in Visitors : RL!Allow(c, v)
  <2>2. ASSUME NEW d \in Callers,
               \/ RL!StopBegin(d) \/ RL!InitBegin(d) \/ RL!StopOne(d) \/ RL!StopEnd(d) \/ RL!InitEnd(d)
               \/ RL!Answered(d)
               \/ \E s \in Slots : RL!Instance(d, s)
               \/ \E h \in Handlers : RL!CustomCreate(d, h) \/ RL!CustomRegister(d, h)
                                      \/ RL!CustomLater(d, h)
        PROVE  limitPc'[c] # "refused"
    BY <1>1, <2>2 DEF RL!StopBegin, RL!InitBegin, RL!Lock, RL!StopOne, RL!StopEnd, RL!InitEnd,
       RL!Unlock, RL!Answered, RL!Instance, RL!CustomCreate, RL!CustomRegister, RL!CustomLater, RL!Goto
  <2>3. ASSUME NEW d \in Callers, NEW v \in Visitors, RL!Allow(d, v) PROVE d = c
    BY <1>1, <2>3 DEF RL!Allow, RL!Goto
  <2>4. ~ (UNCHANGED limitPc)
    OBVIOUS
  <2> QED BY <2>2, <2>3, <2>4 DEF RL!Next, RL!vars, RL!Tick, RL!Cleanup, RL!CleanupExit
<1> DEFINE e == visitors[has[c]][v]
           A == letThrough[has[c]][v]
<1>3. ~ RL!Admits(e) /\ has[c] \in Limiters
  BY <1>1, <1>2 DEF RL!Allow, RL!Goto, BurstInv, LimitInv, HandsAreFull
<1>4. e \in Entries /\ A \in Histories /\ WindowOk(e, A)
  BY <1>3 DEF BurstInv, LimitInv, RL!TypeOK, Entries
<1>5. ~ Opens(e) /\ e.count >= Rate
  BY <1>3 DEF RL!Admits, RL!Full, Opens
<1>6. /\ Rate \in Nat /\ e.count \in 0 .. Rate /\ e.age \in 0 .. Window
      /\ Total(A, e.age) \in Nat /\ Total(A, e.age) <= Total(A, Window)
      /\ Window \in Nat /\ Total(A, Window) \in Nat
  BY <1>4, <1>5, WindowTypes
<1>7. Total(A, Window) >= Rate
  BY <1>4, <1>5, <1>6 DEF WindowOk
<1> QED BY <1>7, LimitSums DEF RL!Through

(* A caller is turned away only when the limiter it asked let Rate of the     *)
(* visitor's requests through within the last window: no refusal comes early. *)
THEOREM OnlyTheFullRefuse == RL!LimitAssumption /\ RL!Spec => RL!RefusedOnlyWhenFull
<1> SUFFICES ASSUME RL!LimitAssumption PROVE RL!Spec => RL!RefusedOnlyWhenFull
  OBVIOUS
<1>1. RL!Init => BurstInv
  BY BurstInit
<1>2. BurstInv /\ [RL!Next]_(RL!vars) => BurstInv'
  BY BurstStep
<1>3. BurstInv /\ [RL!Next]_(RL!vars) =>
         [\A c \in Callers : limitPc[c] = "allow" /\ limitPc'[c] = "refused" =>
             \E v \in Visitors : RL!Through(has[c], v) >= Rate]_(RL!vars)
  BY RefusalStep
<1> QED BY <1>1, <1>2, <1>3, PTL DEF RL!Spec, RL!RefusedOnlyWhenFull

-----------------------------------------------------------------------------
(* SlidingLimit *)

LEMMA SlideSums == ASSUME NEW f, NEW n PROVE SL!Total(f, n) = Total(f, n)
BY DEF SL!Total, SL!Sums, Total, Sums

SetSum(z) == Total(z, SlideWindow + Late)

(* An entry is in the set for a whole window, and its score is at most Late  *)
(* older than it is: whoever was let through in the last k units is among    *)
(* the entries of the last k + Late.                                         *)
Behind(a, z) == \A k \in SL!Recent : Total(a, k) <= Total(z, k + Late)

Sets == [SL!Ages -> 0 .. SlideRate]
LetIn == [SL!Recent -> Nat]

SlideInv ==
    /\ SL!TypeOK
    /\ slideAdmitted \in LetIn /\ Behind(slideAdmitted, zset) /\ SetSum(zset) <= SlideRate
    /\ \A k \in SL!Recent : slideAdmitted[k] > 0 => ttl >= SlideWindow - k
    /\ ~ failClosed => strict = {}
    /\ SL!ClosedLetsOnlyCountedThrough

LEMMA SlideTypes ==
    ASSUME SL!SlidingAssumption
    PROVE  /\ SlideRate \in Nat /\ SlideRate > 0 /\ Late \in Nat /\ SlideWindow \in Nat
           /\ SlideWindow > Late /\ 0 \in SL!Recent
           /\ \A k \in SL!Recent : k \in Nat /\ k + Late < SlideWindow /\ k + Late \in Nat
           /\ \A z \in Sets : /\ \A a \in 0 .. SlideWindow + Late : z[a] \in Nat
                              /\ \A m \in 0 .. SlideWindow + Late : Total(z, m) \in Nat
           /\ \A a \in LetIn : /\ \A k \in SL!Recent : a[k] \in Nat /\ Total(a, k) \in Nat
<1>1. /\ SlideRate \in Nat /\ SlideRate > 0 /\ Late \in Nat /\ SlideWindow \in Nat
      /\ SlideWindow > Late /\ 0 \in SL!Recent
      /\ \A k \in SL!Recent : k \in Nat /\ k + Late < SlideWindow /\ k + Late \in Nat
      /\ SlideWindow + Late \in Nat
  BY DEF SL!SlidingAssumption, SL!Recent
<1>2. \A z \in Sets : \A a \in 0 .. SlideWindow + Late : z[a] \in Nat
  BY <1>1 DEF Sets, SL!Ages
<1>3. \A z \in Sets : \A m \in 0 .. SlideWindow + Late : Total(z, m) \in Nat
  BY <1>1, <1>2, TotalIs
<1>4. \A a \in LetIn : \A k \in SL!Recent : a[k] \in Nat
  BY DEF LetIn
<1>5. ASSUME NEW a \in LetIn, NEW k \in SL!Recent PROVE Total(a, k) \in Nat
  <2>1. \A i \in 0 .. k : a[i] \in Nat
    BY <1>1, <1>4 DEF SL!Recent
  <2> QED BY <1>1, <2>1, TotalIs
<1> QED BY <1>1, <1>2, <1>3, <1>4, <1>5

(* What any process drops from the set is older than what counts.            *)
LEMMA TrimmedFacts ==
    ASSUME SL!SlidingAssumption, NEW z \in Sets, NEW d \in 0 .. Late,
           NEW t, t = [a \in SL!Ages |-> IF a >= SlideWindow + d THEN 0 ELSE z[a]]
    PROVE  /\ t \in Sets /\ SetSum(t) <= SetSum(z)
           /\ \A k \in SL!Recent : Total(t, k + Late) = Total(z, k + Late)
<1>1. /\ SlideRate \in Nat /\ Late \in Nat /\ SlideWindow \in Nat /\ SlideWindow + Late \in Nat
      /\ SL!Ages = 0 .. SlideWindow + Late
      /\ \A k \in SL!Recent : k \in Nat /\ k + Late < SlideWindow /\ k + Late \in Nat
      /\ \A a \in 0 .. SlideWindow + Late : z[a] \in Nat
  BY SlideTypes DEF SL!Ages
<1>2. t \in Sets
  BY <1>1 DEF Sets
<1>3. \A a \in 0 .. SlideWindow + Late : t[a] \in Nat /\ t[a] <= z[a]
  BY <1>1
<1>4. SetSum(t) <= SetSum(z)
  BY <1>1, <1>3, TotalGrows DEF SetSum
<1>5. ASSUME NEW k \in SL!Recent PROVE Total(t, k + Late) = Total(z, k + Late)
  <2>1. \A a \in 0 .. k + Late : z[a] \in Nat /\ t[a] = z[a]
    BY <1>1
  <2> QED BY <1>1, <2>1, TotalAgrees
<1> QED BY <1>2, <1>4, <1>5

LEMMA AddedFacts ==
    ASSUME SL!SlidingAssumption, NEW t \in Sets, NEW d \in 0 .. Late, SetSum(t) < SlideRate
    PROVE  LET z == [t EXCEPT ![d] = @ + 1]
           IN  /\ z \in Sets /\ SetSum(z) <= SlideRate
               /\ \A k \in SL!Recent : Total(z, k + Late) = Total(t, k + Late) + 1
<1> DEFINE z == [t EXCEPT ![d] = @ + 1]
<1>1. /\ SlideRate \in Nat /\ Late \in Nat /\ SlideWindow \in Nat /\ SlideWindow + Late \in Nat
      /\ SL!Ages = 0 .. SlideWindow + Late /\ d \in Nat /\ d <= SlideWindow + Late
      /\ \A k \in SL!Recent : k \in Nat /\ k + Late < SlideWindow /\ k + Late \in Nat
      /\ \A a \in 0 .. SlideWindow + Late : t[a] \in Nat
      /\ \A m \in 0 .. SlideWindow + Late : Total(t, m) \in Nat
  BY SlideTypes DEF SL!Ages
<1>2. \A a \in 0 .. SlideWindow + Late : z[a] = IF a = d THEN t[a] + 1 ELSE t[a]
  BY <1>1 DEF Sets
<1>3. t[d] <= Total(t, d) /\ Total(t, d) <= SetSum(t)
  <2>1. Total(t, d) = IF d = 0 THEN t[0] ELSE Total(t, d - 1) + t[d]
    BY <1>1, TotalIs
  <2>2. d # 0 => Total(t, d - 1) \in Nat
    BY <1>1
  <2>3. Total(t, d) <= SetSum(t)
    BY <1>1, TotalOfMore DEF SetSum
  <2> QED BY <1>1, <2>1, <2>2, <2>3
<1>4. t[d] + 1 \in 0 .. SlideRate
  BY <1>1, <1>3 DEF SetSum
<1>5. z \in Sets
  BY <1>1, <1>4 DEF Sets
<1> HIDE DEF z
<1>6. ASSUME NEW m \in 0 .. SlideWindow + Late, d <= m PROVE Total(z, m) = Total(t, m) + 1
  <2>1. m \in Nat /\ \A a \in 0 .. m : t[a] \in Nat /\ z[a] = IF a = d THEN t[a] + 1 ELSE t[a]
    BY <1>1, <1>2
  <2>2. d \in Nat
    BY <1>1
  <2>3. Total(z, m) = IF d <= m THEN Total(t, m) + 1 ELSE Total(t, m)
    BY <2>1, <2>2, TotalOfOneMore
  <2> QED BY <1>6, <2>3
<1>7. SetSum(z) <= SlideRate
  <2>1. SetSum(z) = SetSum(t) + 1 /\ SetSum(t) \in Nat
    BY <1>1, <1>6 DEF SetSum
  <2> QED BY <1>1, <2>1
<1>8. \A k \in SL!Recent : Total(z, k + Late) = Total(t, k + Late) + 1
  BY <1>1, <1>6
<1> QED BY <1>5, <1>7, <1>8 DEF z

LEMMA OlderFacts ==
    ASSUME SL!SlidingAssumption, NEW a \in LetIn, NEW z \in Sets, Behind(a, z),
           SetSum(z) <= SlideRate
    PROVE  /\ SL!Older(a) \in LetIn /\ SL!Older(z) \in Sets
           /\ Behind(SL!Older(a), SL!Older(z)) /\ SetSum(SL!Older(z)) <= SlideRate
<1> DEFINE b == SL!Older(a)
           y == SL!Older(z)
           n == SlideWindow + Late
<1>1. /\ SlideRate \in Nat /\ Late \in Nat /\ SlideWindow \in Nat /\ n \in Nat /\ n > 0
      /\ SL!Ages = 0 .. n /\ n - 1 \in Nat
      /\ \A k \in SL!Recent : k \in Nat /\ k + Late < SlideWindow /\ k + Late \in Nat
      /\ \A i \in 0 .. n : z[i] \in Nat
      /\ \A m \in 0 .. n : Total(z, m) \in Nat
      /\ \A k \in SL!Recent : a[k] \in Nat /\ Total(a, k) \in Nat
  BY SlideTypes DEF SL!Ages
<1>2. b = [i \in SL!Recent |-> IF i = 0 THEN 0 ELSE a[i - 1]]
      /\ y = [i \in SL!Ages |-> IF i = 0 THEN 0 ELSE z[i - 1]]
  BY DEF SL!Older, LetIn, Sets
<1>3. \A k \in SL!Recent : k # 0 => k - 1 \in SL!Recent
  BY DEF SL!Recent, SL!SlidingAssumption
<1>4. b \in LetIn /\ y \in Sets
  <2>1. b \in LetIn
    BY <1>1, <1>2, <1>3 DEF LetIn
  <2>2. \A i \in 0 .. n : i # 0 => i - 1 \in 0 .. n
    BY <1>1
  <2>3. y \in Sets
    BY <1>1, <1>2, <2>2 DEF Sets
  <2> QED BY <2>1, <2>3
<1>5. y[0] = 0 /\ \A i \in 0 .. n - 1 : y[i + 1] = z[i]
  BY <1>1, <1>2
<1>6. \A m \in 0 .. n - 1 : Total(y, m + 1) = Total(z, m)
  <2> HIDE DEF y, n
  <2> SUFFICES ASSUME NEW m \in 0 .. n - 1 PROVE Total(y, m + 1) = Total(z, m)
    OBVIOUS
  <2>1. m \in Nat /\ \A i \in 0 .. m : z[i] \in Nat /\ y[i + 1] = z[i]
    BY <1>1, <1>5
  <2> QED BY <1>5, <2>1, TotalShifted
<1>7. SetSum(y) <= SlideRate
  <2>1. Total(y, n) = Total(z, n - 1)
    BY <1>1, <1>6, (n - 1) + 1 = n
  <2>2. Total(z, n - 1) <= Total(z, n) /\ Total(z, n - 1) \in Nat /\ Total(z, n) \in Nat
    BY <1>1, TotalOfMore
  <2> QED BY <1>1, <2>1, <2>2 DEF SetSum
<1>8. ASSUME NEW k \in SL!Recent PROVE Total(b, k) <= Total(y, k + Late)
  <2>1. b[0] = 0 /\ k \in Nat /\ k + Late \in 0 .. n
    BY <1>1, <1>2 DEF SL!Recent
  <2>2. CASE k = 0
    <3>1. Total(b, 0) = 0
      BY <2>1, TotalOfNothing
    <3>2. Total(y, k + Late) \in Nat
      BY <1>4, <2>1, SlideTypes
    <3> QED BY <2>2, <3>1, <3>2
  <2>3. CASE k # 0
    <3> DEFINE j == k - 1
    <3>1. j \in SL!Recent /\ j \in Nat /\ j + 1 = k /\ j + Late \in 0 .. n - 1
          /\ (j + Late) + 1 = k + Late
      BY <1>1, <1>3, <2>1, <2>3
    <3>2. \A i \in 0 .. j : a[i] \in Nat /\ b[i + 1] = a[i]
      BY <1>1, <1>2, <3>1 DEF SL!Recent
    <3> HIDE DEF b, y, j
    <3>3. Total(b, j + 1) = Total(a, j)
      BY <2>1, <3>1, <3>2, TotalShifted
    <3>4. Total(y, (j + Late) + 1) = Total(z, j + Late)
      BY <1>6, <3>1
    <3> QED BY <3>1, <3>3, <3>4 DEF Behind
  <2> QED BY <2>2, <2>3
<1> QED BY <1>4, <1>7, <1>8 DEF Behind

LEMMA SlideInit == ASSUME SL!SlidingAssumption, SL!Init PROVE SlideInv
<1>1. /\ zset = [a \in SL!Ages |-> 0] /\ slideAdmitted = [a \in SL!Recent |-> 0]
      /\ strict = {} /\ slidePc = [c \in Callers |-> "idle"]
  BY DEF SL!Init, SL!Empty
<1>2. SL!TypeOK
  BY DEF SL!Init, SL!TypeOK, SL!Empty, SL!SlidingAssumption
<1>3. zset \in Sets /\ slideAdmitted \in LetIn
  BY <1>1, SlideTypes DEF Sets, LetIn
<1>4. \A m \in 0 .. SlideWindow + Late : Total(zset, m) = 0
  BY <1>1, TotalOfNothing DEF SL!Ages, SL!SlidingAssumption
<1>5. \A k \in SL!Recent : Total(slideAdmitted, k) = 0
  BY <1>1, TotalOfNothing DEF SL!Recent, SL!SlidingAssumption
<1>6. Behind(slideAdmitted, zset) /\ SetSum(zset) <= SlideRate
  BY <1>4, <1>5, SlideTypes DEF Behind, SetSum
<1> QED BY <1>1, <1>2, <1>3, <1>6 DEF SlideInv, SL!ClosedLetsOnlyCountedThrough

(* What the script leaves, and what it makes of the history when its answer  *)
(* arrives.                                                                  *)
LEMMA ScriptFacts ==
    ASSUME SL!SlidingAssumption, SlideInv, NEW c \in Callers, SL!Script(c)
    PROVE  /\ zset' \in Sets /\ SetSum(zset') <= SlideRate /\ ttl' \in {ttl, SlideWindow}
           /\ ttl' >= ttl /\ ttl' \in 0 .. SlideWindow
           /\ Behind(slideAdmitted, zset') /\ counted \subseteq counted' /\ counted' \subseteq Callers
           /\ SL!ScriptSaysYes(c) =>
                 /\ ttl' = SlideWindow /\ c \in counted'
                 /\ \A k \in SL!Recent : Total(slideAdmitted, k) + 1 <= Total(zset', k + Late)
<1> DEFINE t == SL!Trimmed(clock[c])
<1>1. zset \in Sets /\ clock[c] \in 0 .. Late /\ slideAdmitted \in LetIn /\ ttl \in 0 .. SlideWindow
      /\ counted \subseteq Callers
  BY DEF SlideInv, SL!TypeOK, Sets
<1>2. t = [a \in SL!Ages |-> IF a >= SlideWindow + clock[c] THEN 0 ELSE zset[a]]
  BY DEF SL!Trimmed
<1>3. /\ SL!ScriptSaysYes(c) <=> SetSum(t) < SlideRate
      /\ IF SetSum(t) < SlideRate
         THEN /\ zset' = [t EXCEPT ![clock[c]] = @ + 1] /\ ttl' = SlideWindow
              /\ counted' = counted \cup {c}
         ELSE zset' = t /\ ttl' = ttl /\ counted' = counted
  BY SlideSums DEF SL!Script, SL!ScriptSaysYes, SetSum
<1> HIDE DEF t
<1>4. /\ t \in Sets /\ SetSum(t) <= SetSum(zset)
      /\ \A k \in SL!Recent : Total(t, k + Late) = Total(zset, k + Late)
  BY <1>1, <1>2, TrimmedFacts
<1>5. /\ SlideWindow \in Nat /\ SlideRate \in Nat /\ SetSum(t) \in Nat /\ SetSum(zset) \in Nat
      /\ \A k \in SL!Recent : Total(t, k + Late) \in Nat /\ Total(slideAdmitted, k) \in Nat
  <2>1. SlideWindow + Late \in 0 .. SlideWindow + Late /\ \A k \in SL!Recent : k + Late \in 0 .. SlideWindow + Late
    BY SlideTypes
  <2> QED BY <1>1, <1>4, <2>1, SlideTypes DEF SetSum
<1>6. \A k \in SL!Recent : Total(slideAdmitted, k) <= Total(t, k + Late)
  BY <1>4 DEF SlideInv, Behind
<1>7. CASE SetSum(t) < SlideRate
  <2>1. /\ zset' \in Sets /\ SetSum(zset') <= SlideRate
        /\ \A k \in SL!Recent : Total(zset', k + Late) = Total(t, k + Late) + 1
    BY <1>1, <1>3, <1>4, <1>7, AddedFacts
  <2>2. \A k \in SL!Recent : Total(slideAdmitted, k) + 1 <= Total(zset', k + Late)
                             /\ Total(slideAdmitted, k) <= Total(zset', k + Late)
    BY <1>5, <1>6, <2>1
  <2> QED BY <1>1, <1>3, <1>5, <1>7, <2>1, <2>2 DEF Behind
<1>8. CASE ~ (SetSum(t) < SlideRate)
  <2>1. SetSum(t) <= SlideRate
    BY <1>4, <1>5 DEF SlideInv
  <2> QED BY <1>1, <1>3, <1>4, <1>5, <1>6, <1>8, <2>1 DEF Behind
<1> QED BY <1>7, <1>8

LEMMA SlideTypeKeeps ==
    ASSUME SL!TypeOK, UNCHANGED <<zset, ttl, redis, failClosed>>,
           slidePc' \in [Callers -> {"idle", "eval"} \cup SL!Decisions],
           clock' \in [Callers -> 0 .. Late], strict' \subseteq Callers, counted' \subseteq Callers
    PROVE  SL!TypeOK'
BY DEF SL!TypeOK, SL!Ages, SL!Decisions

(* The steps that leave the set as it is.                                    *)
LEMMA CallerKeeps ==
    ASSUME SL!SlidingAssumption, SlideInv, NEW c \in Callers,
           SL!AllowNoClient(c) \/ SL!AllowBegin(c) \/ SL!Answered(c)
    PROVE  SlideInv'
<1>0. /\ slidePc \in [Callers -> {"idle", "eval"} \cup SL!Decisions] /\ Late \in Nat
      /\ clock \in [Callers -> 0 .. Late] /\ strict \subseteq Callers /\ counted \subseteq Callers
      /\ (~ failClosed => strict = {})
  BY DEF SlideInv, SL!TypeOK, SL!SlidingAssumption
<1>1. /\ UNCHANGED <<zset, ttl, slideAdmitted, redis, failClosed>>
      /\ slidePc' \in [Callers -> {"idle", "eval"} \cup SL!Decisions]
      /\ clock' \in [Callers -> 0 .. Late]
      /\ \A d \in Callers \ {c} : slidePc'[d] = slidePc[d]
  <2>1. /\ UNCHANGED <<zset, ttl, slideAdmitted, redis, failClosed>>
        /\ \E p \in {"idle", "eval"} \cup SL!Decisions : slidePc' = [slidePc EXCEPT ![c] = p]
    BY DEF SL!AllowNoClient, SL!AllowBegin, SL!Answered, SL!Decide, SL!OnFailure, SL!server,
           SL!Decisions
  <2>2. clock' = clock \/ clock' = [clock EXCEPT ![c] = 0]
    BY DEF SL!AllowNoClient, SL!AllowBegin, SL!Answered
  <2>3. clock' \in [Callers -> 0 .. Late]
    BY <1>0, <2>2
  <2> QED BY <1>0, <2>1, <2>3
<1>2. /\ strict' \subseteq strict \cup {c} /\ counted \ {c} \subseteq counted' /\ counted' \subseteq counted
      /\ (~ failClosed => strict' = {})
      /\ ~ (slidePc'[c] = "next" /\ c \in strict')
  BY <1>0 DEF SL!AllowNoClient, SL!AllowBegin, SL!Answered, SL!Decide, SL!OnFailure
<1>3. SL!TypeOK'
  BY <1>0, <1>1, <1>2, SlideTypeKeeps DEF SlideInv
<1>4. SL!ClosedLetsOnlyCountedThrough'
  BY <1>1, <1>2 DEF SlideInv, SL!ClosedLetsOnlyCountedThrough
<1> QED BY <1>1, <1>2, <1>3, <1>4 DEF SlideInv, Behind, SetSum, LetIn, SL!Recent

LEMMA AnswerKeeps ==
    ASSUME SL!SlidingAssumption, SlideInv, NEW c \in Callers, SL!AllowEval(c) \/ SL!AllowFails(c)
    PROVE  SlideInv'
<1>0. /\ SlideWindow \in Nat /\ 0 \in SL!Recent /\ slideAdmitted \in LetIn /\ ttl \in 0 .. SlideWindow
      /\ Late \in Nat
      /\ \A k \in SL!Recent : k \in Nat /\ slideAdmitted[k] \in Nat /\ Total(slideAdmitted, k) \in Nat
  BY SlideTypes DEF SlideInv, SL!TypeOK
<1>1. /\ UNCHANGED <<redis, failClosed, clock, strict>>
      /\ slidePc' \in [Callers -> {"idle", "eval"} \cup SL!Decisions]
      /\ \A d \in Callers \ {c} : slidePc'[d] = slidePc[d]
  BY DEF SL!AllowEval, SL!AllowFails, SL!Decide, SL!OnFailure, SlideInv, SL!TypeOK, SL!Decisions
<1>2. ASSUME zset' \in Sets, ttl' \in 0 .. SlideWindow, counted' \subseteq Callers PROVE SL!TypeOK'
  BY <1>1, <1>2 DEF SlideInv, SL!TypeOK, SL!Ages, SL!Decisions, Sets
<1>3. ASSUME SL!Script(c), slideAdmitted' = slideAdmitted,
             slidePc'[c] = "next" /\ c \in strict => c \in counted'
      PROVE  SlideInv'
  <2>1. /\ zset' \in Sets /\ SetSum(zset') <= SlideRate /\ ttl' >= ttl /\ ttl' \in 0 .. SlideWindow
        /\ Behind(slideAdmitted, zset') /\ counted \subseteq counted' /\ counted' \subseteq Callers
    BY <1>3, ScriptFacts
  <2>2. \A k \in SL!Recent : slideAdmitted[k] > 0 => ttl' >= SlideWindow - k
    BY <1>0, <2>1 DEF SlideInv
  <2>3. SL!ClosedLetsOnlyCountedThrough'
    BY <1>1, <1>3, <2>1 DEF SlideInv, SL!ClosedLetsOnlyCountedThrough
  <2> QED BY <1>0, <1>1, <1>2, <1>3, <2>1, <2>2, <2>3 DEF SlideInv, SetSum, Behind, SL!Recent
<1>4. CASE SL!AllowFails(c)
  <2>1. slideAdmitted' = slideAdmitted /\ slidePc'[c] = SL!OnFailure
    BY <1>4 DEF SL!AllowFails, SL!Decide, SlideInv, SL!TypeOK
  <2>2. ~ (slidePc'[c] = "next" /\ c \in strict)
    BY <2>1 DEF SL!OnFailure, SlideInv
  <2>3. CASE SL!Script(c)
    BY <1>3, <2>1, <2>2, <2>3
  <2>4. CASE UNCHANGED <<zset, ttl, counted>>
    <3>1. SL!TypeOK'
      BY <1>2, <2>4 DEF SlideInv, SL!TypeOK, Sets
    <3>2. SL!ClosedLetsOnlyCountedThrough'
      BY <1>1, <2>2, <2>4 DEF SlideInv, SL!ClosedLetsOnlyCountedThrough
    <3> QED BY <1>1, <2>1, <2>4, <3>1, <3>2 DEF SlideInv, SetSum, Behind, SL!Recent, LetIn
  <2> QED BY <1>4, <2>3, <2>4 DEF SL!AllowFails
<1>5. CASE SL!AllowEval(c) /\ ~ SL!ScriptSaysYes(c)
  BY <1>3, <1>5 DEF SL!AllowEval, SL!Decide, SlideInv, SL!TypeOK
<1>6. CASE SL!AllowEval(c) /\ SL!ScriptSaysYes(c)
  <2>1. slideAdmitted' = [slideAdmitted EXCEPT ![0] = @ + 1] /\ SL!Script(c)
    BY <1>6 DEF SL!AllowEval
  <2>2. /\ zset' \in Sets /\ SetSum(zset') <= SlideRate /\ ttl' = SlideWindow
        /\ counted \subseteq counted' /\ counted' \subseteq Callers /\ c \in counted'
        /\ \A k \in SL!Recent : Total(slideAdmitted, k) + 1 <= Total(zset', k + Late)
    BY <1>6, <2>1, ScriptFacts
  <2>3. slideAdmitted' \in LetIn
        /\ \A k \in SL!Recent : slideAdmitted'[k] = IF k = 0 THEN slideAdmitted[k] + 1 ELSE slideAdmitted[k]
    BY <1>0, <2>1 DEF LetIn
  <2>4. ASSUME NEW k \in SL!Recent PROVE Total(slideAdmitted', k) = Total(slideAdmitted, k) + 1
    <3>1. k \in Nat /\ 0 <= k /\ \A i \in 0 .. k : i \in SL!Recent
      BY <1>0 DEF SL!Recent
    <3>2. \A i \in 0 .. k : /\ slideAdmitted[i] \in Nat
                            /\ slideAdmitted'[i] = IF i = 0 THEN slideAdmitted[i] + 1 ELSE slideAdmitted[i]
      BY <1>0, <2>3, <3>1
    <3>3. Total(slideAdmitted', k) = IF 0 <= k THEN Total(slideAdmitted, k) + 1 ELSE Total(slideAdmitted, k)
      BY <3>1, <3>2, TotalOfOneMore
    <3> QED BY <3>1, <3>3
  <2>5. Behind(slideAdmitted', zset')
    BY <2>2, <2>4 DEF Behind
  <2>6. \A k \in SL!Recent : ttl' >= SlideWindow - k
    BY <1>0, <2>2
  <2>7. SL!TypeOK'
    BY <1>0, <1>2, <2>2
  <2>8. SL!ClosedLetsOnlyCountedThrough'
    BY <1>1, <2>2 DEF SlideInv, SL!ClosedLetsOnlyCountedThrough
  <2> QED BY <1>1, <2>2, <2>3, <2>5, <2>6, <2>7, <2>8 DEF SlideInv, SetSum, Behind, SL!Recent, LetIn
<1> QED BY <1>4, <1>5, <1>6

LEMMA SlideTickKeeps == ASSUME SL!SlidingAssumption, SlideInv, SL!Tick PROVE SlideInv'
<1>0. /\ SlideWindow \in Nat /\ Late \in Nat /\ slideAdmitted \in LetIn /\ ttl \in 0 .. SlideWindow
      /\ zset \in Sets
      /\ \A k \in SL!Recent : k \in Nat /\ k + Late < SlideWindow /\ slideAdmitted[k] \in Nat
  BY SlideTypes DEF SlideInv, SL!TypeOK, Sets
<1>1. /\ ttl' = IF ttl = 0 THEN 0 ELSE ttl - 1
      /\ zset' = IF ttl' = 0 THEN SL!Empty ELSE SL!Older(zset)
      /\ slideAdmitted' = SL!Older(slideAdmitted)
      /\ clock' \in [Callers -> 0 .. Late] /\ UNCHANGED <<redis, failClosed, slidePc, strict, counted>>
  BY <1>0 DEF SL!Tick, SlideInv, SL!TypeOK
<1>2. /\ SL!Older(slideAdmitted) \in LetIn /\ SL!Older(zset) \in Sets
      /\ Behind(SL!Older(slideAdmitted), SL!Older(zset)) /\ SetSum(SL!Older(zset)) <= SlideRate
  BY <1>0, OlderFacts DEF SlideInv
<1>3. \A k \in SL!Recent : slideAdmitted'[k] > 0 => ttl' >= SlideWindow - k
  <2> SUFFICES ASSUME NEW k \in SL!Recent, slideAdmitted'[k] > 0 PROVE ttl' >= SlideWindow - k
    OBVIOUS
  <2>1. slideAdmitted'[k] = IF k = 0 THEN 0 ELSE slideAdmitted[k - 1]
    BY <1>0, <1>1 DEF SL!Older, LetIn
  <2>2. k # 0 /\ k - 1 \in SL!Recent /\ slideAdmitted[k - 1] > 0
    BY <1>0, <2>1 DEF SL!Recent
  <2>3. ttl >= SlideWindow - (k - 1)
    BY <2>2 DEF SlideInv
  <2> QED BY <1>0, <1>1, <2>2, <2>3
<1>4. zset' \in Sets /\ Behind(slideAdmitted', zset') /\ SetSum(zset') <= SlideRate
  <2>1. CASE ttl' = 0
    <3>1. \A k \in SL!Recent : slideAdmitted'[k] = 0
      <4>1. \A k \in SL!Recent : slideAdmitted'[k] \in Nat
        BY <1>1, <1>2 DEF LetIn
      <4> QED BY <1>0, <1>3, <2>1, <4>1
    <3>2. zset' = [a \in SL!Ages |-> 0]
      BY <1>1, <2>1 DEF SL!Empty
    <3>3. \A m \in 0 .. SlideWindow + Late : Total(zset', m) = 0
      BY <3>2, TotalOfNothing DEF SL!Ages, SL!SlidingAssumption
    <3>4. \A k \in SL!Recent : Total(slideAdmitted', k) = 0
      BY <3>1, TotalOfNothing DEF SL!Recent, SL!SlidingAssumption
    <3> QED BY <3>2, <3>3, <3>4, SlideTypes DEF Behind, SetSum, Sets
  <2>2. CASE ttl' # 0
    BY <1>1, <1>2, <2>2
  <2> QED BY <2>1, <2>2
<1>5. SL!TypeOK'
  <2>1. ttl' \in 0 .. SlideWindow /\ zset' \in [SL!Ages -> 0 .. SlideRate]
    BY <1>0, <1>1, <1>4 DEF Sets
  <2>2. /\ redis' \in {"up", "nil"} /\ failClosed' \in BOOLEAN
        /\ slidePc' \in [Callers -> {"idle", "eval"} \cup SL!Decisions]
        /\ strict' \subseteq Callers /\ counted' \subseteq Callers
    BY <1>1 DEF SlideInv, SL!TypeOK
  <2>3. SL!Ages' = SL!Ages /\ SL!Decisions' = SL!Decisions
    BY DEF SL!Ages, SL!Decisions
  <2> QED BY <1>1, <2>1, <2>2, <2>3 DEF SL!TypeOK
<1>6. SL!ClosedLetsOnlyCountedThrough'
  BY <1>1 DEF SlideInv, SL!ClosedLetsOnlyCountedThrough
<1> QED BY <1>1, <1>2, <1>3, <1>4, <1>5, <1>6 DEF SlideInv, Behind, SetSum, LetIn, SL!Recent

LEMMA SlideStep == ASSUME SL!SlidingAssumption, SlideInv, [SL!Next]_(SL!vars) PROVE SlideInv'
<1>0. /\ SlideWindow \in Nat /\ SlideRate \in Nat /\ 0 \in SL!Recent /\ Late \in Nat
      /\ zset \in Sets /\ slideAdmitted \in LetIn /\ Behind(slideAdmitted, zset)
  BY SlideTypes DEF SlideInv, SL!TypeOK, Sets
<1>1. CASE UNCHANGED SL!vars
  <2>1. SL!TypeOK'
    BY <1>1, SlideTypeKeeps DEF SL!vars, SlideInv, SL!TypeOK
  <2> QED BY <1>1, <2>1 DEF SL!vars, SlideInv, Behind, SetSum, LetIn, SL!Recent,
         SL!ClosedLetsOnlyCountedThrough
<1>2. CASE SL!SetFailClosed
  <2>1. /\ UNCHANGED <<zset, ttl, slideAdmitted, redis, slidePc, clock, counted>>
        /\ failClosed' = ~ failClosed /\ strict' = IF failClosed' THEN strict ELSE {}
    BY <1>2 DEF SL!SetFailClosed, SL!server
  <2>2. failClosed' \in BOOLEAN /\ strict' \subseteq strict /\ (~ failClosed' => strict' = {})
    BY <2>1
  <2>3. SL!TypeOK'
    BY <2>1, <2>2 DEF SlideInv, SL!TypeOK, SL!Ages, SL!Decisions
  <2>4. SL!ClosedLetsOnlyCountedThrough'
    BY <2>1, <2>2 DEF SlideInv, SL!ClosedLetsOnlyCountedThrough
  <2> QED BY <2>1, <2>2, <2>3, <2>4 DEF SlideInv, Behind, SetSum, LetIn, SL!Recent
<1>3. CASE SL!ClientSwaps
  <2>1. /\ UNCHANGED <<zset, ttl, slideAdmitted, failClosed, slidePc, clock, strict, counted>>
        /\ redis' \in {"up", "nil"}
    BY <1>3 DEF SL!ClientSwaps, SL!server
  <2>2. SL!TypeOK'
    BY <2>1 DEF SlideInv, SL!TypeOK, SL!Ages, SL!Decisions
  <2> QED BY <2>1, <2>2 DEF SlideInv, Behind, SetSum, LetIn, SL!Recent,
         SL!ClosedLetsOnlyCountedThrough
<1>4. CASE SL!GetCount
  <2>1. PICK d \in 0 .. Late : zset' = [a \in SL!Ages |-> IF a >= SlideWindow + d THEN 0 ELSE zset[a]]
    BY <1>4 DEF SL!GetCount, SL!Trimmed
  <2>2. UNCHANGED <<ttl, redis, failClosed, slidePc, clock, strict, counted, slideAdmitted>>
    BY <1>4 DEF SL!GetCount
  <2>3. /\ zset' \in Sets /\ SetSum(zset') <= SetSum(zset)
        /\ \A k \in SL!Recent : Total(zset', k + Late) = Total(zset, k + Late)
    BY <1>0, <2>1, TrimmedFacts
  <2>4. Behind(slideAdmitted, zset')
    BY <1>0, <2>3 DEF Behind
  <2>5. SetSum(zset') <= SlideRate
    <3>1. SetSum(zset) \in Nat /\ SetSum(zset') \in Nat /\ SetSum(zset) <= SlideRate
      BY <1>0, <2>3, SlideTypes DEF SetSum, SlideInv
    <3> QED BY <1>0, <2>3, <3>1
  <2>6. SL!TypeOK'
    BY <2>2, <2>3 DEF SlideInv, SL!TypeOK, SL!Ages, SL!Decisions, Sets
  <2> QED BY <2>2, <2>3, <2>4, <2>5, <2>6 DEF SlideInv, Behind, SetSum, LetIn, SL!Recent,
             SL!ClosedLetsOnlyCountedThrough
<1>5. CASE SL!Reset
  <2>1. /\ zset' = [a \in SL!Ages |-> 0] /\ ttl' = 0 /\ slideAdmitted' = [a \in SL!Recent |-> 0]
        /\ UNCHANGED <<redis, failClosed, slidePc, clock, strict, counted>>
    BY <1>5 DEF SL!Reset, SL!Empty
  <2>2. zset' \in Sets /\ slideAdmitted' \in LetIn
    BY <1>0, <2>1 DEF Sets, LetIn
  <2>3. \A m \in 0 .. SlideWindow + Late : Total(zset', m) = 0
    BY <2>1, TotalOfNothing DEF SL!Ages, SL!SlidingAssumption
  <2>4. \A k \in SL!Recent : Total(slideAdmitted', k) = 0
    BY <2>1, TotalOfNothing DEF SL!Recent, SL!SlidingAssumption
  <2>5. Behind(slideAdmitted', zset') /\ SetSum(zset') <= SlideRate
    BY <2>3, <2>4, SlideTypes DEF Behind, SetSum
  <2>6. SL!TypeOK'
    <3>1. ttl' \in 0 .. SlideWindow /\ zset' \in [SL!Ages -> 0 .. SlideRate]
      BY <1>0, <2>1, <2>2 DEF Sets
    <3> QED BY <2>1, <3>1 DEF SlideInv, SL!TypeOK, SL!Ages, SL!Decisions
  <2>7. \A k \in SL!Recent : ~ (slideAdmitted'[k] > 0)
    BY <2>1
  <2> QED BY <2>1, <2>2, <2>5, <2>6, <2>7 DEF SlideInv, Behind, SetSum, LetIn, SL!Recent,
             SL!ClosedLetsOnlyCountedThrough
<1> QED BY <1>1, <1>2, <1>3, <1>4, <1>5, SlideTickKeeps, CallerKeeps, AnswerKeeps DEF SL!Next

(* Whatever the delays, the failures and the clocks of others, the limiter   *)
(* in Redis lets at most Rate requests through in any window less the longest*)
(* delay, and a fail-closed one lets nothing through uncounted (SlidingBound,*)
(* ClosedLetsOnlyCountedThrough).                                            *)
THEOREM SlidesAreBounded ==
    SL!SlidingAssumption /\ SL!Spec =>
        [](SL!TypeOK /\ SL!SlidingBound /\ SL!ClosedLetsOnlyCountedThrough)
<1> SUFFICES ASSUME SL!SlidingAssumption
             PROVE  SL!Spec => [](SL!TypeOK /\ SL!SlidingBound /\ SL!ClosedLetsOnlyCountedThrough)
  OBVIOUS
<1>1. ASSUME SlideInv PROVE SL!TypeOK /\ SL!SlidingBound /\ SL!ClosedLetsOnlyCountedThrough
  <2> DEFINE k == SlideWindow - Late - 1
             n == SlideWindow + Late
  <2>1. /\ SlideRate \in Nat /\ k \in SL!Recent /\ zset \in Sets /\ slideAdmitted \in LetIn
        /\ n \in Nat /\ k + Late \in 0 .. n
    BY <1>1 DEF SL!SlidingAssumption, SL!Recent, SlideInv, SL!TypeOK, Sets
  <2>2. \A i \in 0 .. n : zset[i] \in Nat
    BY <2>1, SlideTypes
  <2>3. Total(zset, k + Late) <= SetSum(zset)
    BY <2>1, <2>2, TotalOfMore DEF SetSum
  <2>4. Total(slideAdmitted, k) \in Nat /\ Total(zset, k + Late) \in Nat /\ SetSum(zset) \in Nat
    BY <2>1, SlideTypes DEF SetSum
  <2>5. Total(slideAdmitted, k) <= Total(zset, k + Late) /\ SetSum(zset) <= SlideRate
    BY <1>1, <2>1 DEF SlideInv, Behind
  <2>6. Total(slideAdmitted, k) <= SlideRate
    <3> HIDE DEF k
    <3> QED BY <2>1, <2>3, <2>4, <2>5
  <2> QED BY <1>1, <2>6, SlideSums DEF SlideInv, SL!SlidingBound
<1>2. SL!Init => SlideInv
  BY SlideInit
<1>3. SlideInv /\ [SL!Next]_(SL!vars) => SlideInv'
  BY SlideStep
<1> QED BY <1>1, <1>2, <1>3, PTL DEF SL!Spec

-----------------------------------------------------------------------------
(* RequestChain *)

(* The handlers the request is inside of: called, and not yet left.          *)
Depth == IF way = "down" THEN at - 1 ELSE at
Inside(m) == \E i \in 1 .. Depth : chain[i] = m

ChainTypes ==
    /\ chain \in RC!Chains
    /\ at \in 0 .. Len(chain) + 1
    /\ way \in {"down", "up", "panic", "over"}
    /\ way = "down" => at >= 1
    /\ way # "down" => at <= Len(chain)
    /\ way = "over" => at = 0
    /\ body = "whole"

LetsThrough(m) ==
    CASE m = "CORS" -> req.method # "OPTIONS"
      [] m = "CSRF" -> \/ RC!SafeMethod \/ RC!Before("CSRFExempt", "CSRF")
                       \/ req.cookie /\ req.sent \in {"header", "form", "json"}
      [] m = "DoubleSubmit" -> RC!SafeMethod \/ (req.cookie /\ req.sent = "header")
      [] m = "AuthRequired" -> req.token # "bad"
      [] m = "RequireRoles" -> RC!Before("AuthRequired", "RequireRoles") /\ req.token = "admin"
      [] OTHER -> TRUE

(* What is in the context tells what the request went through.               *)
KeysTell ==
    /\ way = "down" => /\ "user" \in keys <=> Inside("AuthRequired")
                       /\ "csrf_exempt" \in keys <=> Inside("CSRFExempt")
    /\ "deadline" \in keys <=> Inside("Timeout")

OnlyAdmittedRun ==
    /\ way = "down" => runs = 0 /\ \A m \in RC!Guards : Inside(m) => LetsThrough(m)
    /\ way # "down" => runs = IF RC!Admitted THEN 1 ELSE 0

(* An answer is written once, on the way up at the latest unless a panic is  *)
(* on its way to Recover.                                                    *)
AnswersFit ==
    /\ answers \in Seq(Nat)
    /\ way = "down" => answers = <<>>
    /\ way = "up" => Len(answers) = 1
    /\ way = "panic" => Len(answers) <= 1 /\ (RC!Has(chain, "Recover") => Inside("Recover"))
    /\ way = "over" => Len(answers) <= 1 /\ (RC!Has(chain, "Recover") => Len(answers) = 1)
    /\ way \in {"panic", "over"} => Len(answers) = 1 \/ RC!PanicsSilently
    /\ inFlight = IF Inside("Metrics") THEN 1 ELSE 0

HeadersFit ==
    /\ way = "down" /\ ~ Inside("CORS") => headers \subseteq {"cookie"}
    /\ RC!CredentialsNeedAnOrigin

ChainInv == ChainTypes /\ KeysTell /\ OnlyAdmittedRun /\ AnswersFit /\ HeadersFit

LEMMA ChainFacts ==
    ASSUME RC!ChainAssumption, ChainTypes
    PROVE  /\ Len(chain) \in Nat /\ DOMAIN chain = 1 .. Len(chain)
           /\ \A i \in 1 .. Len(chain) : chain[i] \in RC!Middleware
           /\ \A i, j \in 1 .. Len(chain) : chain[i] = chain[j] => i = j
<1>1. PICK n \in 0 .. MaxChain : chain \in [1 .. n -> RC!Middleware]
  BY DEF ChainTypes, RC!Chains
<1>2. n \in Nat /\ chain \in Seq(RC!Middleware) /\ DOMAIN chain = 1 .. n
  BY <1>1 DEF RC!ChainAssumption
<1>3. RC!IsInjective(chain)
  BY DEF ChainTypes, RC!Chains
<1>4. \A i, j \in DOMAIN chain : chain[i] = chain[j] => i = j
  BY <1>3 DEF RC!IsInjective
<1> QED BY <1>1, <1>2, <1>4, LenProperties

LEMMA ChainInit == ASSUME RC!ChainAssumption, RC!Init PROVE ChainInv
<1>1. Depth = 0 /\ \A m : ~ Inside(m)
  BY DEF RC!Init, Depth, Inside
<1>2. ChainTypes
  <2>1. Len(chain) \in Nat
    <3>1. PICK n \in 0 .. MaxChain : chain \in [1 .. n -> RC!Middleware]
      BY DEF RC!Init, RC!Chains
    <3> QED BY <3>1 DEF RC!ChainAssumption
  <2> QED BY <2>1 DEF RC!Init, ChainTypes
<1> QED BY <1>1, <1>2 DEF RC!Init, ChainInv, KeysTell, OnlyAdmittedRun, AnswersFit,
        HeadersFit, RC!CredentialsNeedAnOrigin

-----------------------------------------------------------------------------
(* How a step moves the request through the chain. *)

LEMMA StepDown ==
    ASSUME RC!ChainAssumption, ChainTypes, NEW m, RC!Entering(m), RC!GoOn, UNCHANGED <<chain, body>>
    PROVE  /\ ChainTypes' /\ way' = "down" /\ way = "down"
           /\ ~ Inside(m)
           /\ \A x : Inside(x)' <=> Inside(x) \/ x = m
<1>1. /\ way = "down" /\ at \in 1 .. Len(chain) /\ chain[at] = m
      /\ at' = at + 1 /\ way' = "down"
  BY ChainFacts DEF ChainTypes, RC!Entering, RC!Last, RC!GoOn
<1>2. Depth = at - 1 /\ Depth' = at
  BY <1>1, ChainFacts DEF Depth
<1>3. ~ Inside(m)
  BY <1>1, <1>2, ChainFacts DEF Inside
<1>4. \A x : Inside(x)' <=> \E i \in 1 .. at : chain[i] = x
  BY <1>2 DEF Inside
<1>5. \A x : Inside(x)' <=> Inside(x) \/ x = m
  BY <1>1, <1>2, <1>4, ChainFacts DEF Inside
<1>6. ChainTypes'
  BY <1>1, ChainFacts DEF ChainTypes
<1> QED BY <1>1, <1>3, <1>5, <1>6

LEMMA StepBack ==
    ASSUME RC!ChainAssumption, ChainTypes, way = "down", at' = at - 1,
           way' \in {"up", "panic"}, UNCHANGED <<chain, body>>
    PROVE  ChainTypes' /\ \A x : Inside(x)' <=> Inside(x)
<1>1. at \in 1 .. Len(chain) + 1 /\ Len(chain) \in Nat
  BY ChainFacts DEF ChainTypes
<1>2. Depth' = Depth
  BY <1>1 DEF Depth
<1> QED BY <1>1, <1>2 DEF Inside, ChainTypes

LEMMA StepUp ==
    ASSUME RC!ChainAssumption, ChainTypes, NEW S, RC!Leaving(S),
           way' \in {"up", way}
    PROVE  /\ ChainTypes' /\ chain[at] \in S /\ Inside(chain[at])
           /\ \A x : Inside(x)' <=> Inside(x) /\ x # chain[at]
<1>1. /\ way \in {"up", "panic"} /\ at \in 1 .. Len(chain) /\ chain[at] \in S /\ at' = at - 1
      /\ UNCHANGED <<chain, body>>
  BY ChainFacts DEF ChainTypes, RC!Leaving
<1>2. Depth = at /\ Depth' = at - 1
  BY <1>1 DEF Depth
<1>3. \A x : Inside(x)' <=> \E i \in 1 .. at - 1 : chain[i] = x
  BY <1>1, <1>2 DEF Inside
<1>4. \A x : Inside(x)' <=> Inside(x) /\ x # chain[at]
  BY <1>1, <1>2, <1>3, ChainFacts DEF Inside
<1>5. Inside(chain[at])
  BY <1>1, <1>2 DEF Inside
<1>6. ChainTypes'
  BY <1>1, ChainFacts DEF ChainTypes
<1> QED BY <1>1, <1>4, <1>5, <1>6

(* Which of two handlers comes first shows when the second one is entered.   *)
LEMMA BeforeFacts ==
    ASSUME RC!ChainAssumption, ChainTypes, NEW m, NEW b, RC!Entering(b)
    PROVE  RC!Has(chain, b) /\ (RC!Before(m, b) <=> Inside(m))
<1>1. way = "down" /\ at \in 1 .. Len(chain) /\ chain[at] = b
  BY ChainFacts DEF ChainTypes, RC!Entering, RC!Last
<1>2. Depth = at - 1
  BY <1>1 DEF Depth
<1>3. RC!Has(chain, b)
  BY <1>1, ChainFacts DEF RC!Has
<1>4. ASSUME RC!Before(m, b) PROVE Inside(m)
  <2>1. PICK i, j \in 1 .. Len(chain) : i < j /\ chain[i] = m /\ chain[j] = b
    BY <1>4, ChainFacts DEF RC!Before
  <2>2. j = at
    BY <1>1, <2>1, ChainFacts
  <2> QED BY <1>1, <1>2, <2>1, <2>2 DEF Inside
<1>5. ASSUME Inside(m) PROVE RC!Before(m, b)
  <2>1. PICK i \in 1 .. at - 1 : chain[i] = m
    BY <1>2, <1>5 DEF Inside
  <2>2. i \in DOMAIN chain /\ at \in DOMAIN chain /\ i < at
    BY <1>1, <2>1, ChainFacts
  <2> QED BY <1>1, <2>1, <2>2 DEF RC!Before
<1> QED BY <1>3, <1>4, <1>5

LEMMA AdmittedFacts ==
    ASSUME RC!ChainAssumption, ChainTypes
    PROVE  RC!Admitted <=> \A m \in RC!Guards : RC!Has(chain, m) => LetsThrough(m)
BY DEF RC!Admitted, RC!Guards, LetsThrough

(* A handler that lets the request on. *)
LEMMA PassKeeps ==
    ASSUME RC!ChainAssumption, ChainInv, NEW m, RC!Entering(m), RC!GoOn,
           UNCHANGED <<chain, req, body, answers, runs>>,
           m \in RC!Guards => LetsThrough(m),
           "user" \in keys' <=> "user" \in keys \/ m = "AuthRequired",
           "csrf_exempt" \in keys' <=> "csrf_exempt" \in keys \/ m = "CSRFExempt",
           "deadline" \in keys' <=> "deadline" \in keys \/ m = "Timeout",
           inFlight' = IF m = "Metrics" THEN inFlight + 1 ELSE inFlight,
           m # "CORS" => headers' \in {headers, headers \cup {"cookie"}},
           RC!CredentialsNeedAnOrigin'
    PROVE  ChainInv'
<1> USE DEF ChainInv
<1>1. /\ ChainTypes' /\ way' = "down" /\ way = "down" /\ ~ Inside(m)
      /\ \A x : Inside(x)' <=> Inside(x) \/ x = m
  BY StepDown
<1>2. KeysTell'
  BY <1>1 DEF KeysTell
<1>3. OnlyAdmittedRun'
  <2>1. ASSUME NEW x \in RC!Guards, Inside(x)'
        PROVE  LetsThrough(x)
    BY <1>1, <2>1 DEF OnlyAdmittedRun
  <2>2. \A x : LetsThrough(x)' <=> LetsThrough(x)
    BY DEF LetsThrough, RC!SafeMethod, RC!Before
  <2>3. RC!Guards' = RC!Guards
    BY DEF RC!Guards
  <2> QED BY <1>1, <2>1, <2>2, <2>3 DEF OnlyAdmittedRun
<1>4. AnswersFit'
  BY <1>1 DEF AnswersFit
<1>5. HeadersFit'
  BY <1>1 DEF HeadersFit
<1> QED BY <1>1, <1>2, <1>3, <1>4, <1>5

(* A guard that does not: it has answered, and the handler will not run. *)
LEMMA AbortKeeps ==
    ASSUME RC!ChainAssumption, ChainInv, NEW m \in RC!Guards, NEW code \in Nat,
           RC!Entering(m), RC!Abort(code), ~ LetsThrough(m),
           UNCHANGED <<chain, req, body, runs, inFlight>>,
           "deadline" \in keys' <=> "deadline" \in keys, RC!CredentialsNeedAnOrigin'
    PROVE  ChainInv'
<1> USE DEF ChainInv
<1>1. way = "down" /\ way' = "up" /\ at' = at - 1 /\ answers' = Append(answers, code)
  BY DEF RC!Entering, RC!Abort
<1>2. ChainTypes' /\ \A x : Inside(x)' <=> Inside(x)
  BY <1>1, StepBack
<1>3. KeysTell'
  BY <1>1, <1>2 DEF KeysTell
<1>4. OnlyAdmittedRun'
  <2>1. ~ RC!Admitted
    BY AdmittedFacts, BeforeFacts
  <2>2. RC!Admitted' <=> RC!Admitted
    BY DEF RC!Admitted, RC!Has, RC!Before, RC!SafeMethod
  <2> QED BY <1>1, <2>1, <2>2 DEF OnlyAdmittedRun
<1>5. AnswersFit'
  <2>1. answers' = <<code>> /\ Len(answers') = 1 /\ answers' \in Seq(Nat)
    BY <1>1 DEF AnswersFit
  <2> QED BY <1>1, <1>2, <2>1 DEF AnswersFit
<1>6. HeadersFit'
  BY <1>1 DEF HeadersFit
<1> QED BY <1>2, <1>3, <1>4, <1>5, <1>6

(* The way back past a handler: what it set up is taken down. *)
LEMMA LeaveKeeps ==
    ASSUME RC!ChainAssumption, ChainInv, NEW S, RC!Leaving(S),
           \/ way' = way /\ answers' = answers /\ "Recover" \notin S
           \/ way' = "up" /\ answers' \in Seq(Nat) /\ Len(answers') = 1,
           "deadline" \in keys' <=> "deadline" \in keys /\ chain[at] # "Timeout",
           inFlight' = IF chain[at] = "Metrics" THEN inFlight - 1 ELSE inFlight
    PROVE  ChainInv'
<1> USE DEF ChainInv
<1>1. /\ way \in {"up", "panic"} /\ way' \in {"up", "panic"} /\ way' \in {"up", way}
      /\ UNCHANGED <<chain, req, headers, runs>>
  BY DEF RC!Leaving
<1>2. /\ ChainTypes' /\ chain[at] \in S /\ Inside(chain[at])
      /\ \A x : Inside(x)' <=> Inside(x) /\ x # chain[at]
  BY <1>1, StepUp
<1>3. KeysTell'
  BY <1>1, <1>2 DEF KeysTell
<1>4. OnlyAdmittedRun'
  <2>1. RC!Admitted' <=> RC!Admitted
    BY <1>1 DEF RC!Admitted, RC!Has, RC!Before, RC!SafeMethod
  <2> QED BY <1>1, <2>1 DEF OnlyAdmittedRun
<1>5. AnswersFit'
  <2>1. inFlight' = IF Inside("Metrics")' THEN 1 ELSE 0
    BY <1>2 DEF AnswersFit
  <2>2. /\ RC!Has(chain, "Recover")' <=> RC!Has(chain, "Recover")
        /\ RC!PanicsSilently' <=> RC!PanicsSilently
    BY <1>1 DEF RC!Has, RC!PanicsSilently
  <2> QED BY <1>1, <1>2, <2>1, <2>2 DEF AnswersFit
<1>6. HeadersFit'
  BY <1>1 DEF HeadersFit, RC!CredentialsNeedAnOrigin
<1> QED BY <1>2, <1>3, <1>4, <1>5, <1>6

-----------------------------------------------------------------------------
(* The steps *)

(* A cookie more changes nothing about the credentials.                      *)
LEMMA CookieIsNoMatter ==
    ASSUME RC!CredentialsNeedAnOrigin, headers' \in {headers, headers \cup {"cookie"}}, req' = req
    PROVE  RC!CredentialsNeedAnOrigin'
<1>1. /\ "credentials" \in headers' <=> "credentials" \in headers
      /\ "origin echo" \in headers' <=> "origin echo" \in headers
      /\ "origin *" \in headers' <=> "origin *" \in headers
      /\ "vary" \in headers' <=> "vary" \in headers
  OBVIOUS
<1> QED BY <1>1 DEF RC!CredentialsNeedAnOrigin

(* A wrapper or a mark lets every request on.                                *)
LEMMA EnteredKeeps ==
    ASSUME RC!ChainAssumption, ChainInv,
           NEW m \in {"Recover", "Metrics", "Timeout", "Logger", "CSRFExempt"},
           RC!Entering(m), RC!GoOn,
           UNCHANGED <<chain, req, body, answers, headers, runs>>,
           keys' = keys \cup (CASE m = "Timeout" -> {"deadline"}
                                [] m = "CSRFExempt" -> {"csrf_exempt"} [] OTHER -> {}),
           inFlight' = IF m = "Metrics" THEN inFlight + 1 ELSE inFlight
    PROVE  ChainInv'
<1>1. m \notin RC!Guards
  BY DEF RC!Guards
<1>2. /\ "user" \in keys' <=> "user" \in keys \/ m = "AuthRequired"
      /\ "csrf_exempt" \in keys' <=> "csrf_exempt" \in keys \/ m = "CSRFExempt"
      /\ "deadline" \in keys' <=> "deadline" \in keys \/ m = "Timeout"
  OBVIOUS
<1>3. RC!CredentialsNeedAnOrigin'
  BY CookieIsNoMatter DEF ChainInv, HeadersFit
<1> QED BY <1>1, <1>2, <1>3, PassKeeps

(* A guard without headers of its own, which may leave a cookie, lets on the *)
(* requests it should and answers the others.                                *)
LEMMA GuardKeeps ==
    ASSUME RC!ChainAssumption, ChainInv, NEW m \in RC!Guards \ {"CORS"}, RC!Entering(m),
           NEW code \in Nat,
           \/ RC!GoOn /\ answers' = answers /\ LetsThrough(m)
           \/ RC!Abort(code) /\ ~ LetsThrough(m),
           UNCHANGED <<chain, req, body, inFlight, runs>>,
           headers' \in {headers, headers \cup {"cookie"}},
           RC!GoOn => ("user" \in keys' <=> "user" \in keys \/ m = "AuthRequired"),
           "csrf_exempt" \in keys' <=> "csrf_exempt" \in keys,
           "deadline" \in keys' <=> "deadline" \in keys
    PROVE  ChainInv'
<1>1. m # "CSRFExempt" /\ m # "Timeout" /\ m # "Metrics" /\ m # "CORS"
  BY DEF RC!Guards
<1>2. RC!CredentialsNeedAnOrigin'
  BY CookieIsNoMatter DEF ChainInv, HeadersFit
<1>3. CASE RC!GoOn /\ answers' = answers /\ LetsThrough(m)
  BY <1>1, <1>2, <1>3, PassKeeps
<1>4. CASE RC!Abort(code) /\ ~ LetsThrough(m)
  BY <1>2, <1>4, AbortKeeps
<1> QED BY <1>3, <1>4

LEMMA CORSKeeps == ASSUME RC!ChainAssumption, ChainInv, RC!CORS PROVE ChainInv'
<1> USE DEF ChainInv
<1>1. RC!Entering("CORS") /\ "CORS" \in RC!Guards
  BY DEF RC!CORS, RC!Guards
<1>2. headers \subseteq {"cookie"}
  <2>1. way = "down" /\ at \in 1 .. Len(chain) /\ chain[at] = "CORS"
    BY <1>1, ChainFacts DEF RC!Entering, RC!Last, ChainTypes
  <2>2. ~ Inside("CORS")
    BY <2>1, ChainFacts DEF Inside, Depth
  <2> QED BY <2>1, <2>2 DEF HeadersFit
<1>3. RC!CredentialsNeedAnOrigin'
  <2>1. ASSUME "credentials" \in headers'
        PROVE  RC!Credentials
    BY <1>2, <2>1 DEF RC!CORS, RC!AllowedOrigin
  <2>2. ASSUME RC!Credentials
        PROVE  /\ "origin echo" \in headers' /\ "origin *" \notin headers' /\ "vary" \in headers'
               /\ \/ req.origin = "listed"
                  \/ "star" \in req.config
                  \/ "dev" \in req.config /\ req.origin = "localhost"
    <3>1. RC!AllowedOrigin = {"origin echo"}
      BY <2>2 DEF RC!Credentials, RC!Echoed
    <3>2. headers' = headers \cup {"origin echo"} \cup {"vary"} \cup {"credentials"}
      BY <2>2, <3>1 DEF RC!CORS, RC!Echoed
    <3>3. \/ req.origin = "listed"
          \/ "star" \in req.config
          \/ "dev" \in req.config /\ req.origin = "localhost"
      BY <3>1 DEF RC!AllowedOrigin
    <3> QED BY <1>2, <3>2, <3>3
  <2>3. req' = req
    BY DEF RC!CORS
  <2> QED BY <2>1, <2>2, <2>3 DEF RC!CredentialsNeedAnOrigin
<1>4. CASE req.method = "OPTIONS"
  BY <1>1, <1>3, <1>4, AbortKeeps DEF RC!CORS, LetsThrough
<1>5. CASE req.method # "OPTIONS"
  BY <1>1, <1>3, <1>5, PassKeeps DEF RC!CORS, LetsThrough
<1> QED BY <1>4, <1>5

LEMMA CsrfSkipsKeeps == ASSUME RC!ChainAssumption, ChainInv, RC!CSRFSkips PROVE ChainInv'
<1> USE DEF ChainInv
<1>1. way = "down" /\ RC!Entering("CSRF") /\ "CSRF" \in RC!Guards \ {"CORS"}
  BY DEF RC!CSRFSkips, RC!Entering, RC!Guards
<1>2. LetsThrough("CSRF")
  BY <1>1, BeforeFacts DEF RC!CSRFSkips, KeysTell, LetsThrough
<1> QED BY <1>1, <1>2, GuardKeeps, 0 \in Nat DEF RC!CSRFSkips

LEMMA CsrfKeeps == ASSUME RC!ChainAssumption, ChainInv, RC!CSRF PROVE ChainInv'
<1> USE DEF ChainInv
<1>1. way = "down" /\ RC!Entering("CSRF") /\ "CSRF" \in RC!Guards \ {"CORS"}
  BY DEF RC!CSRF, RC!Entering, RC!Guards
<1>2. ~ RC!Before("CSRFExempt", "CSRF")
  BY <1>1, BeforeFacts DEF RC!CSRF, KeysTell
<1>3. LetsThrough("CSRF") <=> RC!SafeMethod \/ RC!TokenMatches
  BY <1>2 DEF LetsThrough, RC!TokenMatches, RC!SentMatches, ChainTypes
<1>4. PICK code \in Nat : IF RC!SafeMethod \/ RC!TokenMatches
                          THEN RC!GoOn /\ UNCHANGED answers ELSE RC!Abort(code)
  <2>1. 413 \in Nat /\ 400 \in Nat
    OBVIOUS
  <2> QED BY <2>1, ZenonT(40) DEF RC!CSRF
<1>5. /\ "user" \in keys' <=> "user" \in keys
      /\ "csrf_exempt" \in keys' <=> "csrf_exempt" \in keys
      /\ "deadline" \in keys' <=> "deadline" \in keys
  BY DEF RC!CSRF
<1> QED BY <1>1, <1>3, <1>4, <1>5, GuardKeeps DEF RC!CSRF

LEMMA DoubleSubmitKeeps == ASSUME RC!ChainAssumption, ChainInv, RC!DoubleSubmit PROVE ChainInv'
<1>1. RC!Entering("DoubleSubmit") /\ "DoubleSubmit" \in RC!Guards \ {"CORS"}
  BY DEF RC!DoubleSubmit, RC!Guards
<1>2. LetsThrough("DoubleSubmit") <=> RC!SafeMethod \/ (req.cookie /\ req.sent = "header")
  BY DEF LetsThrough
<1>3. \/ RC!GoOn /\ answers' = answers /\ LetsThrough("DoubleSubmit")
      \/ RC!Abort(400) /\ ~ LetsThrough("DoubleSubmit")
  BY <1>2 DEF RC!DoubleSubmit
<1>4. /\ "user" \in keys' <=> "user" \in keys
      /\ "csrf_exempt" \in keys' <=> "csrf_exempt" \in keys
      /\ "deadline" \in keys' <=> "deadline" \in keys
  BY DEF RC!DoubleSubmit
<1> QED BY <1>1, <1>3, <1>4, GuardKeeps, 400 \in Nat DEF RC!DoubleSubmit

LEMMA AuthRequiredKeeps == ASSUME RC!ChainAssumption, ChainInv, RC!AuthRequired PROVE ChainInv'
<1>1. RC!Entering("AuthRequired") /\ "AuthRequired" \in RC!Guards \ {"CORS"}
  BY DEF RC!AuthRequired, RC!Guards
<1>2. \/ RC!GoOn /\ answers' = answers /\ LetsThrough("AuthRequired") /\ keys' = keys \cup {"user"}
      \/ RC!Abort(401) /\ ~ LetsThrough("AuthRequired") /\ keys' = keys
  BY DEF RC!AuthRequired, LetsThrough
<1>3. ~ (RC!GoOn /\ RC!Abort(401))
  BY DEF RC!GoOn, RC!Abort
<1> QED BY <1>1, <1>2, <1>3, GuardKeeps, 401 \in Nat DEF RC!AuthRequired

LEMMA RequireRolesKeeps == ASSUME RC!ChainAssumption, ChainInv, RC!RequireRoles PROVE ChainInv'
<1> USE DEF ChainInv
<1>1. /\ way = "down" /\ RC!Entering("RequireRoles") /\ "RequireRoles" \in RC!Guards \ {"CORS"}
  BY DEF RC!RequireRoles, RC!Entering, RC!Guards
<1>2. LetsThrough("RequireRoles") <=> RC!RoleAllowed
  BY <1>1, BeforeFacts DEF LetsThrough, RC!RoleAllowed, KeysTell
<1>3. PICK code \in Nat : IF RC!RoleAllowed THEN RC!GoOn /\ UNCHANGED answers ELSE RC!Abort(code)
  BY 403 \in Nat, 401 \in Nat DEF RC!RequireRoles
<1> QED BY <1>1, <1>2, <1>3, GuardKeeps DEF RC!RequireRoles

(* At the end of the chain the request is inside every handler of it.        *)
LEMMA HandlerKeeps == ASSUME RC!ChainAssumption, ChainInv, RC!Handler PROVE ChainInv'
<1> USE DEF ChainInv
<1>1. /\ way = "down" /\ at = Len(chain) + 1 /\ way' \in {"up", "panic"} /\ at' = at - 1
      /\ UNCHANGED <<chain, req, keys, body, headers, inFlight>> /\ runs' = runs + 1
  BY DEF RC!Handler, RC!Last
<1>2. ChainTypes' /\ \A x : Inside(x)' <=> Inside(x)
  BY <1>1, StepBack
<1>3. \A x : RC!Has(chain, x) => Inside(x)
  <2>1. Depth = Len(chain)
    BY <1>1, ChainFacts DEF Depth
  <2> QED BY <2>1, ChainFacts DEF RC!Has, Inside
<1>4. KeysTell'
  BY <1>1, <1>2 DEF KeysTell
<1>5. OnlyAdmittedRun'
  <2>1. RC!Admitted
    BY <1>1, <1>3, AdmittedFacts DEF OnlyAdmittedRun
  <2>2. RC!Admitted' <=> RC!Admitted
    BY <1>1 DEF RC!Admitted, RC!Has, RC!Before, RC!SafeMethod
  <2> QED BY <1>1, <2>1, <2>2 DEF OnlyAdmittedRun
<1>6. AnswersFit'
  <2>1. /\ answers' \in Seq(Nat) /\ Len(answers') <= 1
        /\ way' = "up" => Len(answers') = 1
        /\ req.does # "panics" => Len(answers') = 1
    BY <1>1 DEF AnswersFit, RC!Handler
  <2>2. RC!Has(chain, "Recover")' => Inside("Recover")'
    BY <1>1, <1>2, <1>3 DEF RC!Has
  <2>3. Len(answers') = 1 \/ RC!PanicsSilently'
    BY <1>1, <2>1 DEF OnlyAdmittedRun, RC!PanicsSilently
  <2> QED BY <1>1, <1>2, <2>1, <2>2, <2>3 DEF AnswersFit
<1>7. HeadersFit'
  BY <1>1 DEF HeadersFit, RC!CredentialsNeedAnOrigin
<1> QED BY <1>2, <1>4, <1>5, <1>6, <1>7

LEMMA RecoverDeferKeeps == ASSUME RC!ChainAssumption, ChainInv, RC!RecoverDefer PROVE ChainInv'
<1> USE DEF ChainInv
<1>1. RC!Leaving({"Recover"}) /\ chain[at] = "Recover" /\ way \in {"up", "panic"} /\ way' = "up"
  BY DEF RC!RecoverDefer, RC!Leaving
<1>2. answers' \in Seq(Nat) /\ Len(answers') = 1
  <2>1. CASE way = "up"
    BY <2>1 DEF RC!RecoverDefer, AnswersFit
  <2>2. CASE way = "panic" /\ answers = <<>>
    BY <2>2, 500 \in Nat DEF RC!RecoverDefer, RC!RecoverWrites
  <2>3. CASE way = "panic" /\ answers # <<>>
    <3>1. answers' = answers /\ Len(answers) <= 1
      BY <2>3 DEF RC!RecoverDefer, RC!RecoverWrites, AnswersFit
    <3>2. answers \in Seq(Nat) /\ Len(answers) # 0
      BY <2>3, EmptySeq DEF AnswersFit
    <3>3. Len(answers) \in Nat
      BY <3>2, LenProperties
    <3> QED BY <3>1, <3>2, <3>3
  <2> QED BY <1>1, <2>1, <2>2, <2>3
<1> QED BY <1>1, <1>2, LeaveKeeps DEF RC!RecoverDefer

LEMMA DeferKeeps ==
    ASSUME RC!ChainAssumption, ChainInv, RC!MetricsDefer \/ RC!TimeoutDefer \/ RC!Leave
    PROVE  ChainInv'
<1>1. CASE RC!MetricsDefer
  BY <1>1, LeaveKeeps DEF RC!MetricsDefer, RC!Leaving
<1>2. CASE RC!TimeoutDefer
  BY <1>2, LeaveKeeps DEF RC!TimeoutDefer, RC!Leaving
<1>3. CASE RC!Leave
  BY <1>3, LeaveKeeps DEF RC!Leave, RC!Leaving
<1> QED BY <1>1, <1>2, <1>3

LEMMA OverKeeps == ASSUME RC!ChainAssumption, ChainInv, RC!Over PROVE ChainInv'
<1> USE DEF ChainInv
<1>1. /\ way \in {"up", "panic"} /\ at = 0 /\ way' = "over"
      /\ UNCHANGED <<chain, req, at, keys, body, answers, headers, inFlight, runs>>
  BY DEF RC!Over
<1>2. \A x : ~ Inside(x) /\ ~ Inside(x)'
  BY <1>1 DEF Inside, Depth
<1>3. ChainTypes'
  BY <1>1 DEF ChainTypes
<1>4. KeysTell' /\ HeadersFit'
  BY <1>1, <1>2 DEF KeysTell, HeadersFit, RC!CredentialsNeedAnOrigin
<1>5. OnlyAdmittedRun'
  <2>1. RC!Admitted' <=> RC!Admitted
    BY <1>1 DEF RC!Admitted, RC!Has, RC!Before, RC!SafeMethod
  <2> QED BY <1>1, <2>1 DEF OnlyAdmittedRun
<1>6. AnswersFit'
  <2>1. RC!Has(chain, "Recover")' <=> RC!Has(chain, "Recover")
    BY <1>1 DEF RC!Has
  <2>2. inFlight' = 0 /\ (Inside("Metrics")' <=> FALSE) /\ (Inside("Recover") <=> FALSE)
    BY <1>1, <1>2 DEF AnswersFit
  <2>3. answers' \in Seq(Nat) /\ Len(answers') <= 1
    <3>1. Len(answers) = 1 \/ Len(answers) <= 1
      BY <1>1 DEF AnswersFit
    <3>2. Len(answers) <= 1
      <4>1. CASE Len(answers) = 1
        BY <4>1
      <4> QED BY <3>1, <4>1
    <3> QED BY <1>1, <3>2 DEF AnswersFit
  <2>4. RC!Has(chain, "Recover") => Len(answers') = 1
    BY <1>1, <2>2 DEF AnswersFit
  <2>5. Len(answers') = 1 \/ RC!PanicsSilently'
    BY <1>1 DEF AnswersFit, RC!PanicsSilently
  <2> QED BY <1>1, <2>1, <2>2, <2>3, <2>4, <2>5 DEF AnswersFit
<1> QED BY <1>3, <1>4, <1>5, <1>6

LEMMA ChainStep == ASSUME RC!ChainAssumption, ChainInv, [RC!Next]_(RC!vars) PROVE ChainInv'
<1>1. CASE RC!Recover
  BY <1>1, EnteredKeeps DEF RC!Recover, RC!Entered
<1>2. CASE RC!Metrics
  BY <1>2, EnteredKeeps DEF RC!Metrics, RC!Entered
<1>3. CASE RC!Timeout
  BY <1>3, EnteredKeeps DEF RC!Timeout, RC!Entered
<1>4. CASE RC!LoggerWithConfig
  BY <1>4, EnteredKeeps DEF RC!LoggerWithConfig, RC!Entered, RC!AfterLogging
<1>5. CASE RC!CSRFExempt
  BY <1>5, EnteredKeeps DEF RC!CSRFExempt
<1>6. CASE UNCHANGED RC!vars
  <2>1. /\ RC!Admitted' <=> RC!Admitted
        /\ \A m : LetsThrough(m)' <=> LetsThrough(m)
        /\ RC!Guards' = RC!Guards
    BY <1>6 DEF RC!vars, RC!Admitted, RC!Has, RC!Before, RC!SafeMethod, LetsThrough, RC!Guards
  <2>2. ChainTypes' /\ KeysTell'
    BY <1>6 DEF RC!vars, ChainInv, ChainTypes, KeysTell, Inside, Depth
  <2>3. OnlyAdmittedRun'
    BY <1>6, <2>1 DEF RC!vars, ChainInv, OnlyAdmittedRun, Inside, Depth
  <2>4. AnswersFit' /\ HeadersFit'
    BY <1>6 DEF RC!vars, ChainInv, AnswersFit, HeadersFit, Inside, Depth, RC!Has,
                RC!PanicsSilently, RC!CredentialsNeedAnOrigin
  <2> QED BY <2>2, <2>3, <2>4 DEF ChainInv
<1>7. CASE RC!Next
  BY <1>1, <1>2, <1>3, <1>4, <1>5, <1>7, CORSKeeps, CsrfSkipsKeeps, CsrfKeeps, DoubleSubmitKeeps,
     AuthRequiredKeeps, RequireRolesKeeps, HandlerKeeps, RecoverDeferKeeps, DeferKeeps, OverKeeps
     DEF RC!Next
<1> QED BY <1>6, <1>7

LEMMA ChainMeans ==
    ASSUME RC!ChainAssumption, ChainInv
    PROVE  RC!HandlerIsGuarded /\ RC!AnsweredOnce /\ RC!CredentialsNeedAnOrigin
<1> USE DEF ChainInv
<1>1. RC!HandlerIsGuarded
  BY DEF OnlyAdmittedRun, RC!HandlerIsGuarded
<1>2. RC!AnsweredOnce
  <2>1. way = "over" => \A x : ~ Inside(x)
    BY DEF ChainTypes, Inside, Depth
  <2>2. Len(answers) <= 1
    <3>1. CASE way = "down"
      BY <3>1 DEF AnswersFit
    <3>2. CASE way \in {"up", "panic", "over"}
      <4>1. Len(answers) = 1 \/ Len(answers) <= 1
        BY <3>2 DEF AnswersFit
      <4> QED BY <4>1
    <3> QED BY <3>1, <3>2 DEF ChainTypes
  <2> QED BY <2>1, <2>2 DEF AnswersFit, KeysTell, RC!AnsweredOnce
<1> QED BY <1>1, <1>2 DEF HeadersFit

(* Whatever the order of the handlers and however long the chain, the last   *)
(* handler runs once for a request that every guard lets through and for no  *)
(* other.                                                                    *)
THEOREM HandlerStaysGuarded == RC!ChainAssumption /\ RC!Spec => []RC!HandlerIsGuarded
<1> SUFFICES ASSUME RC!ChainAssumption PROVE RC!Spec => []RC!HandlerIsGuarded
  OBVIOUS
<1>1. RC!Init => ChainInv
  BY ChainInit
<1>2. ChainInv /\ [RC!Next]_(RC!vars) => ChainInv'
  BY ChainStep
<1>3. ChainInv => RC!HandlerIsGuarded
  BY ChainMeans
<1> QED BY <1>1, <1>2, <1>3, PTL DEF RC!Spec

(* Whatever the chain, a request is answered at most once, and exactly once  *)
(* unless its handler panics before it writes and the chain has no Recover;  *)
(* no gauge and no deadline is left behind; and credentials go only with the *)
(* echo of an allowed origin.                                                *)
THEOREM AnsweredOnlyOnce ==
    RC!ChainAssumption /\ RC!Spec => [](RC!AnsweredOnce /\ RC!CredentialsNeedAnOrigin)
<1> SUFFICES ASSUME RC!ChainAssumption PROVE RC!Spec => [](RC!AnsweredOnce /\ RC!CredentialsNeedAnOrigin)
  OBVIOUS
<1>1. RC!Init => ChainInv
  BY ChainInit
<1>2. ChainInv /\ [RC!Next]_(RC!vars) => ChainInv'
  BY ChainStep
<1>3. ChainInv => RC!AnsweredOnce /\ RC!CredentialsNeedAnOrigin
  BY ChainMeans
<1> QED BY <1>1, <1>2, <1>3, PTL DEF RC!Spec

-----------------------------------------------------------------------------
(* Archive *)

LEMMA ArchiveSums == ASSUME NEW f, NEW n PROVE AR!Total(f, n) = Total(f, n)
BY DEF AR!Total, AR!Sums, Total, Sums

LEMMA ArchiveMin ==
    ASSUME NEW a \in Int, NEW b \in Int PROVE AR!Min({a, b}) = IF a <= b THEN a ELSE b
<1>1. \E x \in {a, b} : \A y \in {a, b} : x <= y
  OBVIOUS
<1>2. AR!Min({a, b}) \in {a, b} /\ \A y \in {a, b} : AR!Min({a, b}) <= y
  BY <1>1 DEF AR!Min
<1> QED BY <1>2

(* Why an archive was refused that no call failed on. *)
Refused ==
    \/ \E i \in DOMAIN archive : archive[i].kind = "refused" \/ AR!Over(EntryLimit, archive[i].size)
    \/ AR!Over(TotalLimit, AR!SizesOf(Len(archive)))
    \/ TotalLimit > 0 /\ AR!SizesOf(entriesDone) = TotalLimit /\ AR!Entry.kind = "file"

(* The total is that of the entries done, and within its limit; a file that  *)
(* is whole is one of them; until the call ends nothing has failed.          *)
AnyFile == [state : {"absent", "before", "whole", "part"}, units : 0 .. MaxEntry]

ArchiveInv ==
    /\ AR!TypeOK
    /\ total = AR!SizesOf(entriesDone)
    /\ packed = "none" => ~ unlucky /\ \A n \in Paths : disk[n].state # "part"
    /\ work # "pack" /\ packed = "error" /\ ~ unlucky => Refused
    /\ AR!LimitsHold /\ AR!OkIsComplete

LEMMA EntryFacts ==
    ASSUME AR!ArchiveAssumption, NEW e \in AR!Entries
    PROVE  /\ e.name \in Paths /\ e.kind \in {"file", "dir", "refused"} /\ e.size \in 0 .. MaxEntry
           /\ e.kind # "file" => e.size = 0
<1>1. MaxEntry \in Nat
  BY DEF AR!ArchiveAssumption
<1> QED BY <1>1 DEF AR!Entries

LEMMA SizesFacts ==
    ASSUME AR!ArchiveAssumption, archive \in Seq(AR!Entries)
    PROVE  /\ AR!SizesOf(0) = 0
           /\ \A n \in 0 .. Len(archive) : /\ AR!SizesOf(n) \in Nat
                                           /\ AR!SizesOf(n) <= AR!SizesOf(Len(archive))
           /\ \A n \in 0 .. Len(archive) - 1 :
                 AR!SizesOf(n + 1) = AR!SizesOf(n) + archive[n + 1].size
<1> DEFINE f == AR!Sizes
           L == Len(archive)
<1>1. L \in Nat /\ \A n : AR!SizesOf(n) = Total(f, n)
  BY ArchiveSums DEF AR!SizesOf
<1>2. f[0] = 0 /\ \A i \in 0 .. L : f[i] \in Nat
  <2>1. \A i \in 1 .. L : archive[i].size \in 0 .. MaxEntry
    BY EntryFacts
  <2> QED BY <1>1, <2>1 DEF AR!Sizes, AR!ArchiveAssumption
<1>3. \A i \in 1 .. L : f[i] = archive[i].size
  BY <1>1 DEF AR!Sizes
<1> HIDE DEF f, L
<1>4. Total(f, 0) = 0
  BY <1>1, <1>2, TotalIs
<1>5. ASSUME NEW n \in 0 .. L PROVE Total(f, n) \in Nat /\ Total(f, n) <= Total(f, L)
  <2>1. n \in Nat /\ n \in 0 .. L /\ \A i \in 0 .. n : f[i] \in Nat
    BY <1>1, <1>2
  <2>2. Total(f, n) \in Nat
    BY <2>1, TotalIs
  <2> QED BY <1>1, <1>2, <2>1, <2>2, TotalOfMore
<1>6. ASSUME NEW n \in 0 .. L - 1 PROVE Total(f, n + 1) = Total(f, n) + archive[n + 1].size
  <2>1. n + 1 \in Nat /\ n + 1 # 0 /\ (n + 1) - 1 = n /\ \A i \in 0 .. n + 1 : f[i] \in Nat
    BY <1>1, <1>2
  <2>2. Total(f, n + 1) = Total(f, n) + f[n + 1]
    BY <2>1, TotalIs
  <2>3. f[n + 1] = archive[n + 1].size
    BY <1>1, <1>3
  <2> QED BY <2>2, <2>3
<1> QED BY <1>1, <1>4, <1>5, <1>6 DEF f, L

LEMMA ArchiveInit == ASSUME AR!ArchiveAssumption, AR!Init PROVE ArchiveInv
<1>1. archive \in Seq(AR!Entries) /\ Len(archive) \in Nat
  <2>1. PICK n \in 0 .. MaxEntries : archive \in [1 .. n -> AR!Entries]
    BY DEF AR!Init, AR!Archives
  <2> QED BY <2>1 DEF AR!ArchiveAssumption
<1>2. AR!Absent \in [state : {"absent", "before", "whole", "part"}, units : 0 .. MaxEntry]
      /\ AR!File("before", 1) \in [state : {"absent", "before", "whole", "part"}, units : 0 .. MaxEntry]
      /\ AR!Absent.state # "part" /\ AR!File("before", 1).state # "part"
      /\ AR!Absent.state # "whole" /\ AR!File("before", 1).state # "whole"
  BY DEF AR!Absent, AR!File, AR!ArchiveAssumption
<1>3. AR!TypeOK
  <2>1. disk \in [Paths -> [state : {"absent", "before", "whole", "part"}, units : 0 .. MaxEntry]]
    BY <1>2 DEF AR!Init
  <2>2. unlucky = FALSE /\ entriesDone = 0 /\ total = 0 /\ packed = "none"
        /\ work \in {"unzip", "gunzip", "pack"}
    BY DEF AR!Init
  <2>3. entriesDone \in 0 .. Len(archive) /\ total \in Nat
    BY <1>1, <2>2
  <2>4. unlucky \in BOOLEAN
    BY <2>2, Zenon
  <2>5. packed \in {"none", "ok", "error"}
    BY <2>2
  <2> QED BY <1>1, <2>1, <2>2, <2>3, <2>4, <2>5 DEF AR!TypeOK
<1>4. total = AR!SizesOf(entriesDone)
  BY <1>1, SizesFacts DEF AR!Init
<1>5. \A n \in Paths : disk[n].state # "part" /\ disk[n].state # "whole"
  BY <1>2 DEF AR!Init
<1>6. unlucky = FALSE /\ total = 0 /\ packed = "none"
  BY DEF AR!Init
<1>7. ~ AR!Over(TotalLimit, total)
  BY <1>6 DEF AR!Over, AR!ArchiveAssumption
<1> QED BY <1>3, <1>4, <1>5, <1>6, <1>7 DEF ArchiveInv, AR!LimitsHold, AR!OkIsComplete

(* What an entry that is not too long means, and one that is.                *)
LEMMA CapFacts ==
    ASSUME AR!ArchiveAssumption, ArchiveInv, AR!Working, AR!Entry.kind = "file"
    PROVE  LET size == AR!Entry.size
           IN  /\ ~ AR!TooLong => /\ AR!CopiesUpTo(size) = size /\ ~ AR!Over(EntryLimit, size)
                                  /\ work = "unzip" => ~ AR!Over(TotalLimit, total + size)
               /\ AR!TooLong => \/ AR!Over(EntryLimit, size) \/ AR!Over(TotalLimit, total + size)
                                \/ TotalLimit > 0 /\ total = TotalLimit
<1> DEFINE size == AR!Entry.size
<1>1. /\ size \in Nat /\ total \in Nat /\ EntryLimit \in Int /\ EntryLimit # 0 /\ TotalLimit \in Int
      /\ TotalLimit # 0
  <2>1. AR!Entry \in AR!Entries
    BY DEF ArchiveInv, AR!TypeOK, AR!Working, AR!Entry
  <2> QED BY <2>1, EntryFacts DEF AR!ArchiveAssumption, ArchiveInv, AR!TypeOK
<1>2. work = "unzip" => ~ AR!Over(TotalLimit, total)
  BY DEF ArchiveInv, AR!LimitsHold
<1>3. AR!Cap \in Int /\
      AR!Cap = IF work = "gunzip" \/ TotalLimit <= 0 THEN EntryLimit
               ELSE IF EntryLimit < 0 THEN TotalLimit - total
               ELSE IF TotalLimit - total < 0 THEN EntryLimit
               ELSE IF EntryLimit <= TotalLimit - total THEN EntryLimit ELSE TotalLimit - total
  BY <1>1, ArchiveMin DEF AR!Cap, AR!MinLimit
<1>4. AR!CopiesUpTo(size) = IF AR!Cap < 0 THEN size
                            ELSE IF size <= AR!Cap + 1 THEN size ELSE AR!Cap + 1
  BY <1>1, <1>3, ArchiveMin DEF AR!CopiesUpTo
<1>5. AR!TooLong <=> AR!Cap = 0 \/ (AR!Cap > 0 /\ size > AR!Cap)
  BY <1>1, <1>3, <1>4 DEF AR!TooLong
<1>6. work # "pack" => work \in {"unzip", "gunzip"}
  BY DEF ArchiveInv, AR!TypeOK
<1> HIDE DEF size
<1>7. ~ AR!TooLong => AR!CopiesUpTo(size) = size /\ ~ AR!Over(EntryLimit, size)
  BY <1>1, <1>2, <1>3, <1>4, <1>5 DEF AR!Over
<1>8. ~ AR!TooLong /\ work = "unzip" => ~ AR!Over(TotalLimit, total + size)
  BY <1>1, <1>2, <1>3, <1>4, <1>5 DEF AR!Over
<1>9. AR!TooLong => \/ AR!Over(EntryLimit, size) \/ AR!Over(TotalLimit, total + size)
                    \/ TotalLimit > 0 /\ total = TotalLimit
  BY <1>1, <1>2, <1>3, <1>5 DEF AR!Over
<1> QED BY <1>7, <1>8, <1>9 DEF size
(* The calls on the archive that do not work on its entries.                 *)
LEMMA ArchiveEndKeeps ==
    ASSUME AR!ArchiveAssumption, ArchiveInv, AR!Refuse \/ AR!PackStops \/ AR!Finish
    PROVE  ArchiveInv'
<1>1. /\ UNCHANGED <<work, archive, entriesDone, total, disk>> /\ packed = "none" /\ packed' \in {"ok", "error"}
      /\ ~ unlucky /\ unlucky' \in BOOLEAN
  <2>1. /\ UNCHANGED <<work, archive, entriesDone, total, disk>> /\ packed = "none"
        /\ packed' \in {"ok", "error"}
    BY DEF AR!Refuse, AR!PackStops, AR!Finish, AR!Working
  <2>2. unlucky' \in BOOLEAN
    BY DEF AR!Refuse, AR!PackStops, AR!Finish, ArchiveInv, AR!TypeOK
  <2> QED BY <2>1, <2>2 DEF ArchiveInv
<1>2. AR!TypeOK' /\ AR!Sizes' = AR!Sizes /\ AR!Entry' = AR!Entry
  BY <1>1 DEF ArchiveInv, AR!TypeOK, AR!Sizes, AR!Entry, AR!Entries
<1>3. total' = AR!SizesOf(entriesDone)' /\ AR!LimitsHold'
  BY <1>1, <1>2 DEF ArchiveInv, AR!SizesOf, AR!LimitsHold, AR!Over, AR!Size, AR!Total, AR!Sums
<1>4. work' # "pack" /\ packed' = "error" /\ ~ unlucky' => Refused'
  <2>1. CASE AR!Refuse
    <3>1. archive[entriesDone + 1].kind = "refused" /\ entriesDone + 1 \in DOMAIN archive
      BY <2>1 DEF AR!Refuse, AR!Entry, AR!Working, ArchiveInv, AR!TypeOK
    <3> QED BY <1>1, <3>1 DEF Refused
  <2>2. CASE AR!PackStops
    BY <2>2 DEF AR!PackStops
  <2>3. CASE AR!Finish
    BY <2>3 DEF AR!Finish, AR!CloseReturned
  <2> QED BY <2>1, <2>2, <2>3
<1>5. AR!OkIsComplete'
  <2>1. CASE AR!Finish
    BY <1>1, <2>1 DEF AR!Finish, AR!CloseReturned, AR!OkIsComplete
  <2>2. CASE AR!Refuse \/ AR!PackStops
    BY <2>2 DEF AR!Refuse, AR!PackStops, AR!OkIsComplete
  <2> QED BY <2>1, <2>2
<1> QED BY <1>1, <1>2, <1>3, <1>4, <1>5 DEF ArchiveInv

(* An entry is done.                                                         *)
LEMMA EntryDoneKeeps ==
    ASSUME AR!ArchiveAssumption, ArchiveInv, AR!Extract \/ AR!Directory \/ AR!PackFile
    PROVE  ArchiveInv'
<1> DEFINE e == AR!Entry
<1>1. /\ UNCHANGED <<work, archive, packed, unlucky>> /\ packed = "none" /\ ~ unlucky
      /\ entriesDone' = entriesDone + 1 /\ entriesDone \in 0 .. Len(archive) - 1
      /\ archive \in Seq(AR!Entries) /\ AR!Working
  BY DEF AR!Extract, AR!Directory, AR!PackFile, AR!Working, ArchiveInv, AR!TypeOK
<1>2. /\ e \in AR!Entries /\ e = archive[entriesDone + 1] /\ e.size \in 0 .. MaxEntry /\ e.name \in Paths
      /\ MaxEntry \in Nat
  BY <1>1, EntryFacts DEF AR!Entry, AR!ArchiveAssumption
<1>3. AR!SizesOf(entriesDone + 1) = total + e.size /\ total \in Nat
  BY <1>1, <1>2, SizesFacts DEF ArchiveInv, AR!TypeOK
<1>4. AR!SizesOf(entriesDone)' = AR!SizesOf(entriesDone + 1)
  BY <1>1 DEF AR!SizesOf, AR!Sizes, AR!Total, AR!Sums
<1>5. total' = total + e.size /\ (work = "unzip" => ~ AR!Over(TotalLimit, total'))
  <2>1. CASE AR!Extract
    BY <1>1, <2>1, CapFacts DEF AR!Extract
  <2>2. CASE AR!Directory
    <3>1. e.size = 0 /\ total' = total
      BY <1>2, <2>2, EntryFacts DEF AR!Directory
    <3> QED BY <1>3, <3>1 DEF ArchiveInv, AR!LimitsHold
  <2>3. CASE AR!PackFile
    BY <2>3 DEF AR!PackFile
  <2> QED BY <2>1, <2>2, <2>3
<1>6. \/ disk' = disk
      \/ /\ disk' = [disk EXCEPT ![e.name] = AR!File("whole", e.size)]
         /\ ~ AR!Over(EntryLimit, e.size)
  <2>1. CASE AR!Extract
    BY <1>1, <2>1, CapFacts DEF AR!Extract, AR!Place
  <2> QED BY <2>1 DEF AR!Directory, AR!PackFile
<1> HIDE DEF e
<1>7. disk' \in [Paths -> [state : {"absent", "before", "whole", "part"}, units : 0 .. MaxEntry]]
  <2>1. AR!File("whole", e.size) \in [state : {"absent", "before", "whole", "part"}, units : 0 .. MaxEntry]
    BY <1>2 DEF AR!File
  <2> QED BY <1>6, <2>1 DEF ArchiveInv, AR!TypeOK
<1>8. AR!TypeOK'
  BY <1>1, <1>2, <1>3, <1>5, <1>7 DEF ArchiveInv, AR!TypeOK, AR!Entries
<1>9. \A n \in Paths : disk'[n].state # "part"
  BY <1>1, <1>6 DEF ArchiveInv, AR!TypeOK, AR!File
<1>10. ASSUME NEW n \in Paths, disk'[n].state = "whole"
       PROVE  /\ ~ AR!Over(EntryLimit, disk'[n].units)
              /\ \E i \in 1 .. entriesDone + 1 : archive[i].name = n /\ archive[i].size = disk'[n].units
  <2>1. CASE disk'[n] = disk[n]
    <3>1. /\ ~ AR!Over(EntryLimit, disk[n].units)
          /\ \E i \in 1 .. entriesDone : archive[i].name = n /\ archive[i].size = disk[n].units
      BY <1>10, <2>1 DEF ArchiveInv, AR!LimitsHold, AR!Size
    <3> QED BY <1>1, <2>1, <3>1
  <2>2. CASE disk'[n] # disk[n]
    <3>1. n = e.name /\ disk'[n] = AR!File("whole", e.size) /\ ~ AR!Over(EntryLimit, e.size)
      BY <1>6, <2>2 DEF ArchiveInv, AR!TypeOK
    <3>2. entriesDone + 1 \in 1 .. entriesDone + 1
      BY <1>1
    <3> QED BY <1>2, <3>1, <3>2 DEF AR!File
  <2> QED BY <2>1, <2>2
<1>11. AR!LimitsHold'
  BY <1>1, <1>5, <1>9, <1>10 DEF AR!LimitsHold, AR!Size, AR!Over
<1> QED BY <1>1, <1>3, <1>4, <1>5, <1>8, <1>9, <1>11 DEF ArchiveInv, AR!OkIsComplete

(* An entry fails, and with it the call.                                     *)
LEMMA EntryFailsKeeps ==
    ASSUME AR!ArchiveAssumption, ArchiveInv, AR!ExtractFails \/ AR!ExtractBreaks
    PROVE  ArchiveInv'
<1> DEFINE e == AR!Entry
           L == Len(archive)
<1>1. /\ UNCHANGED <<work, archive, entriesDone, total>> /\ packed = "none" /\ packed' = "error"
      /\ ~ unlucky /\ unlucky' \in BOOLEAN /\ AR!Working
  BY DEF AR!ExtractFails, AR!ExtractBreaks, AR!Working, ArchiveInv
<1>2. /\ e \in AR!Entries /\ e = archive[entriesDone + 1] /\ e.size \in 0 .. MaxEntry /\ e.name \in Paths
      /\ MaxEntry \in Nat /\ entriesDone \in 0 .. L - 1 /\ L \in Nat /\ archive \in Seq(AR!Entries)
      /\ total = AR!SizesOf(entriesDone)
  BY <1>1, EntryFacts DEF AR!Entry, AR!ArchiveAssumption, ArchiveInv, AR!TypeOK, AR!Working
<1>3. /\ AR!SizesOf(entriesDone + 1) = total + e.size /\ total \in Nat
      /\ AR!SizesOf(entriesDone + 1) <= AR!SizesOf(L) /\ AR!SizesOf(L) \in Nat
  <2>1. entriesDone + 1 \in 0 .. L /\ L \in 0 .. L /\ entriesDone \in 0 .. L
    BY <1>2
  <2> QED BY <1>2, <2>1, SizesFacts
<1>4. /\ disk' = disk \/ \E f \in {AR!Absent, AR!File("part", e.size)} : disk' = [disk EXCEPT ![e.name] = f]
      /\ (disk' # disk /\ ~ unlucky') => disk' = [disk EXCEPT ![e.name] = AR!Absent]
  BY DEF AR!ExtractFails, AR!ExtractBreaks, AR!Place, AR!Cleans
<1>5. ~ unlucky' => e.kind = "file" /\ AR!TooLong
  BY DEF AR!ExtractFails, AR!ExtractBreaks
<1>6. ~ unlucky' => \/ AR!Over(EntryLimit, e.size) \/ AR!Over(TotalLimit, total + e.size)
                    \/ TotalLimit > 0 /\ total = TotalLimit
  BY <1>1, <1>5, CapFacts
<1>7. /\ AR!Entry' = AR!Entry /\ AR!SizesOf(entriesDone)' = AR!SizesOf(entriesDone)
      /\ AR!SizesOf(Len(archive))' = AR!SizesOf(L)
  BY <1>1 DEF AR!Entry, AR!SizesOf, AR!Sizes, AR!Total, AR!Sums
<1>8. ASSUME ~ unlucky' PROVE Refused'
  <2>1. CASE AR!Over(EntryLimit, e.size)
    <3>1. entriesDone + 1 \in DOMAIN archive /\ AR!Over(EntryLimit, archive[entriesDone + 1].size)
      BY <1>2, <2>1
    <3> QED BY <1>1, <3>1 DEF Refused, AR!Over
  <2>2. CASE AR!Over(TotalLimit, total + e.size)
    <3>1. AR!Over(TotalLimit, AR!SizesOf(L))
      <4> HIDE DEF L, e
      <4>1. TotalLimit \in Int /\ e.size \in Nat
        BY <1>2 DEF AR!ArchiveAssumption
      <4> QED BY <1>3, <2>2, <4>1 DEF AR!Over
    <3> QED BY <1>7, <3>1 DEF Refused, AR!Over
  <2>3. CASE TotalLimit > 0 /\ total = TotalLimit
    BY <1>2, <1>5, <1>7, <1>8, <2>3 DEF Refused
  <2> QED BY <1>6, <1>8, <2>1, <2>2, <2>3
<1> HIDE DEF e, L
<1>9. disk' \in [Paths -> [state : {"absent", "before", "whole", "part"}, units : 0 .. MaxEntry]]
  <2>1. \A f \in {AR!Absent, AR!File("part", e.size)} :
           f \in [state : {"absent", "before", "whole", "part"}, units : 0 .. MaxEntry]
    BY <1>2 DEF AR!File, AR!Absent
  <2> QED BY <1>4, <2>1 DEF ArchiveInv, AR!TypeOK
<1>10. AR!TypeOK'
  BY <1>1, <1>9 DEF ArchiveInv, AR!TypeOK, AR!Entries
<1>11. AR!LimitsHold'
  <2>1. work' = "unzip" => ~ AR!Over(TotalLimit, total)'
    BY <1>1 DEF ArchiveInv, AR!LimitsHold, AR!Over
  <2>2. \A n \in Paths : disk'[n].state = "whole" => disk'[n] = disk[n]
    BY <1>4 DEF AR!File, AR!Absent, ArchiveInv, AR!TypeOK
  <2>3. ASSUME NEW n \in Paths, disk'[n].state = "part", ~ unlucky' PROVE FALSE
    <3>1. disk[n].state # "part" /\ disk \in [Paths -> AnyFile]
      BY <1>1 DEF ArchiveInv, AR!TypeOK, AnyFile
    <3>2. disk' # disk
      BY <2>3, <3>1
    <3>3. disk' = [disk EXCEPT ![e.name] = AR!Absent]
      BY <1>4, <2>3, <3>2
    <3>4. disk'[n] = disk[n] \/ disk'[n] = AR!Absent
      BY <3>1, <3>3
    <3> QED BY <2>3, <3>1, <3>4 DEF AR!Absent, AR!File
  <2> QED BY <1>1, <2>1, <2>2, <2>3 DEF ArchiveInv, AR!LimitsHold, AR!Size, AR!Over
<1> QED BY <1>1, <1>2, <1>7, <1>8, <1>10, <1>11 DEF ArchiveInv, AR!OkIsComplete

LEMMA ArchiveStep ==
    ASSUME AR!ArchiveAssumption, ArchiveInv, [AR!Next]_(AR!vars) PROVE ArchiveInv'
<1>1. CASE UNCHANGED AR!vars
  BY <1>1 DEF AR!vars, ArchiveInv, AR!TypeOK, AR!SizesOf, AR!Sizes, AR!Total, AR!Sums, Refused,
     AR!Entry,
     AR!Entries, AR!LimitsHold, AR!Over, AR!Size, AR!OkIsComplete
<1> QED BY <1>1, ArchiveEndKeeps, EntryDoneKeeps, EntryFailsKeeps DEF AR!Next

LEMMA ArchiveMeans ==
    ASSUME ArchiveInv
    PROVE  AR!TypeOK /\ AR!LimitsHold /\ AR!WithinLimitsUnpacks /\ AR!OkIsComplete
BY DEF ArchiveInv, AR!WithinLimitsUnpacks, Refused

(* What is unpacked stays within the limits whatever fails, an archive within*)
(* them is refused by no accident of arithmetic, and a call that returns nil *)
(* has done everything.                                                      *)
THEOREM ArchivesStayWithinLimits ==
    AR!ArchiveAssumption /\ AR!Spec =>
        [](AR!TypeOK /\ AR!LimitsHold /\ AR!WithinLimitsUnpacks /\ AR!OkIsComplete)
<1> SUFFICES ASSUME AR!ArchiveAssumption
             PROVE  AR!Spec => [](AR!TypeOK /\ AR!LimitsHold /\ AR!WithinLimitsUnpacks
                                  /\ AR!OkIsComplete)
  OBVIOUS
<1>1. AR!Init => ArchiveInv
  BY ArchiveInit
<1>2. ArchiveInv /\ [AR!Next]_(AR!vars) => ArchiveInv'
  BY ArchiveStep
<1>3. ArchiveInv => AR!TypeOK /\ AR!LimitsHold /\ AR!WithinLimitsUnpacks /\ AR!OkIsComplete
  BY ArchiveMeans
<1> QED BY <1>1, <1>2, <1>3, PTL DEF AR!Spec

-----------------------------------------------------------------------------
(* Guards: what the run checks of each part holds for any callers and bounds. *)

LEMMA JwtIsPart == Spec => JT!Spec
<1>1. Init => JT!Init
  BY DEF Init
<1>2. [Next]_all => [JT!Next]_(JT!vars)
  BY DEF Next, all, tokens, JT!vars
<1> QED BY <1>1, <1>2, PTL DEF Spec, all, JT!Spec

LEMMA CsrfIsPart == Spec => CT!Spec
<1>1. Init => CT!Init
  BY DEF Init
<1>2. [Next]_all => [CT!Next]_(CT!vars)
  BY DEF Next, all, singles, CT!vars
<1> QED BY <1>1, <1>2, PTL DEF Spec, all, CT!Spec

LEMMA LimitIsPart == Spec => RL!Spec
<1>1. Init => RL!Init
  BY DEF Init
<1>2. [Next]_all => [RL!Next]_(RL!vars)
  BY DEF Next, all, limits, RL!vars
<1> QED BY <1>1, <1>2, PTL DEF Spec, all, RL!Spec

(* A token whose revocation was confirmed is refused by every later parse    *)
(* that fails closed.                                                        *)
THEOREM RevocationHolds == Spec => []RevokedIsRefused
<1>1. JT!JwtAssumption
  BY GuardAssumption
<1> QED BY <1>1, JwtIsPart, RevokedStayRefused, PTL DEF RevokedIsRefused

(* A refresh that issued a token has revoked the one it replaces.            *)
THEOREM RefreshRevokes == Spec => []RefreshReplaces
<1>1. JT!JwtAssumption
  BY GuardAssumption
<1> QED BY <1>1, JwtIsPart, RefreshedAreDead, PTL DEF RefreshReplaces

(* An API token passes at most once, and a fresh one is refused only when it *)
(* was spent.                                                                *)
THEOREM TokensPassOnce == Spec => []TokensSingleUse
<1>1. CT!CsrfAssumption
  BY GuardAssumption
<1> QED BY <1>1, CsrfIsPart, TokensAreSingleUse, PTL DEF TokensSingleUse

(* A cleanup goroutine belongs to a limiter somebody can stop.               *)
THEOREM NoForgottenCleanup == Spec => []LimitersCanBeStopped
<1>1. RL!LimitAssumption
  BY GuardAssumption
<1> QED BY <1>1, LimitIsPart, LimitersStayStoppable, PTL DEF LimitersCanBeStopped

LEMMA ChainIsPart == Spec => [](part = "requests" => ChainInv)
<1>0. RC!ChainAssumption
  BY GuardAssumption
<1>1. Init => (part = "requests" => ChainInv)
  BY <1>0, ChainInit DEF Init
<1>2. (part = "requests" => ChainInv) /\ [Next]_all => (part = "requests" => ChainInv)'
  <2> SUFFICES ASSUME [Next]_all, part = "requests" => ChainInv, part' = "requests"
               PROVE  ChainInv'
    OBVIOUS
  <2>1. part = "requests" /\ [RC!Next]_(RC!vars)
    BY DEF Next, all, requests, RC!vars
  <2> QED BY <1>0, <2>1, ChainStep
<1> QED BY <1>1, <1>2, PTL DEF Spec, all

(* In no order of the chain is a handler reached past a guard before it.     *)
THEOREM NobodyPassesAGuard == Spec => []HandlerIsGuarded
<1>1. (part = "requests" => ChainInv) => HandlerIsGuarded
  BY ChainMeans, GuardAssumption DEF HandlerIsGuarded
<1> QED BY <1>1, ChainIsPart, PTL

(* Every request is answered once, and credentials go only to an admitted    *)
(* origin.                                                                   *)
THEOREM EveryoneIsAnswered == Spec => []AnsweredOnce
<1>1. (part = "requests" => ChainInv) => AnsweredOnce
  BY ChainMeans, GuardAssumption DEF AnsweredOnce
<1> QED BY <1>1, ChainIsPart, PTL

LEMMA SlideIsPart == Spec => SL!Spec
<1>1. Init => SL!Init
  BY DEF Init
<1>2. [Next]_all => [SL!Next]_(SL!vars)
  BY DEF Next, all, slides, SL!vars
<1> QED BY <1>1, <1>2, PTL DEF Spec, all, SL!Spec

(* In no span of one window does a limiter in memory let twice the rate      *)
(* through, ...                                                              *)
THEOREM BurstsStayBounded == Spec => []BurstBound
<1>1. RL!LimitAssumption
  BY GuardAssumption
<1> QED BY <1>1, LimitIsPart, BurstsAreBounded, PTL DEF BurstBound

(* ... and it refuses only whose window is full.                             *)
THEOREM OnlyFullWindowsRefuse == Spec => RefusedOnlyWhenFull
<1>1. RL!LimitAssumption
  BY GuardAssumption
<1> QED BY <1>1, LimitIsPart, OnlyTheFullRefuse, PTL DEF RefusedOnlyWhenFull

(* Nor does the one in Redis let more than the rate through, however late    *)
(* the calls are, and one that fails closed lets only counted ones through.  *)
THEOREM SlidesStayBounded == Spec => []SlidingBound
<1>1. SL!SlidingAssumption
  BY GuardAssumption
<1> QED BY <1>1, SlideIsPart, SlidesAreBounded, PTL DEF SlidingBound

LEMMA ArchiveIsPart == Spec => [](part = "archives" => ArchiveInv)
<1>0. AR!ArchiveAssumption
  BY GuardAssumption
<1>1. Init => (part = "archives" => ArchiveInv)
  BY <1>0, ArchiveInit DEF Init
<1>2. (part = "archives" => ArchiveInv) /\ [Next]_all => (part = "archives" => ArchiveInv)'
  <2> SUFFICES ASSUME [Next]_all, part = "archives" => ArchiveInv, part' = "archives"
               PROVE  ArchiveInv'
    OBVIOUS
  <2>1. part = "archives" /\ [AR!Next]_(AR!vars)
    BY DEF Next, all, archives, AR!vars
  <2> QED BY <1>0, <2>1, ArchiveStep
<1> QED BY <1>1, <1>2, PTL DEF Spec, all

(* What is unpacked stays within its limits, an archive within them is not   *)
(* refused for its sums, and a call that returns nil has done everything.    *)
THEOREM UnpackedWithinLimits == Spec => []LimitsHold
<1>1. (part = "archives" => ArchiveInv) => LimitsHold
  BY ArchiveMeans, GuardAssumption DEF LimitsHold
<1> QED BY <1>1, ArchiveIsPart, PTL
=============================================================================

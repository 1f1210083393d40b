---------------------------- MODULE Identifiers ----------------------------
(***************************************************************************)
(* French business identifiers (packages/facturx/src/identifiers.ts) and   *)
(* the account check of generate/check-draft.ts.  What a user types is a   *)
(* sequence of symbols: the digits 0..9, the letters A = 10 .. Z = 35 (the *)
(* value the account check gives them), and Separator, which stands for    *)
(* every blank, dot, dash or slash the code strips.                        *)
(***************************************************************************)
EXTENDS Integers, SequencesExt, Selection

Separator == 36
FR == <<15, 27>>
LA_POSTE_SIREN == <<3, 5, 6, 0, 0, 0, 0, 0, 0>>

\* An identifier that is not stated; <<>> is one stated as the empty text.
NoId == <<-1>>

Given(t) == t \notin {NoId, <<>>}

stripFormatting(t) == filter(t, LAMBDA c : c # Separator)

AllBlank(t) == t = NoId \/ stripFormatting(t) = <<>>

AllDigits(t) == t # <<>> /\ \A i \in DOMAIN t : t[i] \in 0..9

\* Every second digit from the right counts double, less nine above nine.
LuhnWeight(t, i) ==
    LET v == IF (Len(t) - i) % 2 = 1 THEN 2 * t[i] ELSE t[i]
    IN IF v > 9 THEN v - 9 ELSE v

passesLuhn(t) == MapThenSumSet(LAMBDA i : LuhnWeight(t, i), DOMAIN t) % 10 = 0

digitSum(t) == MapThenSumSet(LAMBDA i : t[i], DOMAIN t)

\* The verdict of a validator: "ok", or the reason it gives.
validateSiren(raw) ==
    LET t == stripFormatting(raw)
    IN IF AllBlank(raw) THEN "missing"
       ELSE IF ~AllDigits(t) THEN "characters"
       ELSE IF Len(t) # 9 THEN "length"
       ELSE IF t = LA_POSTE_SIREN \/ passesLuhn(t) THEN "ok"
       ELSE "key"

validateSiret(raw) ==
    LET t == stripFormatting(raw)
        keyHolds == IF IsPrefix(LA_POSTE_SIREN, t) THEN digitSum(t) % 5 = 0
                                                   ELSE passesLuhn(t)
    IN IF AllBlank(raw) THEN "missing"
       ELSE IF ~AllDigits(t) THEN "characters"
       ELSE IF Len(t) # 14 THEN "length"
       ELSE IF keyHolds THEN "ok"
       ELSE "key"

sirenFromSiret(raw) ==
    IF validateSiret(raw) = "ok" THEN SubSeq(stripFormatting(raw), 1, 9) ELSE NoId

\* The remainder by 97 of the number a text reads as; a letter is two digits.
Mod97(t) == FoldLeft(LAMBDA r, c : (r * (IF c < 10 THEN 10 ELSE 100) + c) % 97, 0, t)

VatKey(siren) ==
    LET key == (12 + 3 * Mod97(siren)) % 97 IN <<key \div 10, key % 10>>

vatNumberFromSiren(raw) ==
    IF validateSiren(raw) = "ok"
    THEN FR \o VatKey(stripFormatting(raw)) \o stripFormatting(raw) ELSE NoId

\* Mutation: the SIREN is checked and the key is not.
validateFrenchVatNumberUnkeyed(raw) ==
    LET t == stripFormatting(raw)
    IN IF AllBlank(raw) THEN "missing"
       ELSE IF ~IsPrefix(FR, t) THEN "country"
       ELSE IF Len(t) # 13 THEN "length"
       ELSE validateSiren(SubSeq(t, 5, 13))

validateFrenchVatNumber(raw) ==
    LET t == stripFormatting(raw)
        siren == SubSeq(t, 5, 13)
    IN IF AllBlank(raw) THEN "missing"
       ELSE IF ~IsPrefix(FR, t) THEN "country"
       ELSE IF Len(t) # 13 THEN "length"
       ELSE IF validateSiren(siren) # "ok" THEN "siren"
       ELSE IF ~AllDigits(SubSeq(t, 3, 4)) THEN "ok"   \* a key with letters is not checked
       ELSE IF vatNumberFromSiren(siren) = t THEN "ok"
       ELSE "key"

\* Two letters, two digits, and 10 to 30 symbols more, whose remainder is 1
\* once the first four are moved to the end.
isValidIban(raw) ==
    LET t == stripFormatting(raw)
    IN /\ Len(t) \in 14..34
       /\ \A i \in DOMAIN t : t[i] \in 0..35
       /\ \A i \in 1..2 : t[i] > 9
       /\ \A i \in 3..4 : t[i] < 10
       /\ Mod97(SubSeq(t, 5, Len(t)) \o SubSeq(t, 1, 4)) = 1
=============================================================================

--------------------------- MODULE ToolCallScan ---------------------------
(***************************************************************************)
(* parse_tool_call of orchestrator/tool_calls.py on text that is only       *)
(* partly JSON: the scanner for balanced objects, a character at a time,    *)
(* against a definition of what the objects of a text are.                 *)
(*                                                                         *)
(* Of a character only this is kept: whether it opens or closes an object,  *)
(* is a double quote, a backslash or any other.  An object of one other     *)
(* character stands for one that has the shape of a call, any other         *)
(* candidate for one that has not.                                         *)
(***************************************************************************)
EXTENDS Integers, Sequences, SequencesExt, FiniteSetsExt

CONSTANT MaxLength   \* bound: the characters of a text

ASSUME ToolCallScanAssumption == MaxLength \in Nat

VARIABLES
  characters,  \* the argument `text`: the model's turn
  pos,         \* the character the scanner looks at, two past the last at the end
  depth, start, inString, escaped,   \* the local variables of the scanner
  candidates,  \* the runs found, each the places of its first and last brace
  found        \* in the end, the run taken for a call, if any

scanVars == <<characters, pos, depth, start, inString, escaped, candidates, found>>

Character == {"open", "close", "quote", "backslash", "other"}

ScanTypeOK ==
  /\ characters \in BoundedSeq(Character, MaxLength)
  /\ pos \in 1 .. Len(characters) + 2
  /\ depth \in 0 .. Len(characters)
  /\ start \in 0 .. Len(characters)
  /\ depth > 0 => start > 0 /\ characters[start] = "open"
  /\ inString \in BOOLEAN /\ escaped \in BOOLEAN
  /\ escaped => inString
  /\ \A i \in DOMAIN candidates : candidates[i] \in (1 .. pos) \X (1 .. pos)

ScanInit ==
  /\ characters \in BoundedSeq(Character, MaxLength)
  /\ pos = 1
  /\ depth = 0
  /\ start = 0
  /\ inString = FALSE
  /\ escaped = FALSE
  /\ candidates = <<>>
  /\ found = <<>>

Look(expected) ==
  /\ pos <= Len(characters)
  /\ characters[pos] \in expected
  /\ pos' = pos + 1

-----------------------------------------------------------------------------
(* Mutant: a backslash escapes nothing. *)
EndsLiteralEscaped(ch) == ch = "quote"

(* A quote that is not escaped ends a literal.                              *)
EndsLiteral(ch) == ch = "quote" /\ ~escaped

InLiteral ==
  /\ inString
  /\ Look(Character)
  /\ inString' = ~EndsLiteral(characters[pos])
  /\ escaped' = (characters[pos] = "backslash" /\ ~escaped)
  /\ UNCHANGED <<characters, depth, start, candidates, found>>

Quote ==
  /\ ~inString
  /\ Look({"quote"})
  /\ inString' = TRUE
  /\ UNCHANGED <<characters, depth, start, escaped, candidates, found>>

Open ==
  /\ ~inString
  /\ Look({"open"})
  /\ start' = IF depth = 0 THEN pos ELSE start
  /\ depth' = depth + 1
  /\ UNCHANGED <<characters, inString, escaped, candidates, found>>

(* Mutant: any closing brace closes something. *)
ClosesAlways(ch) == ch = "close"

(* A closing brace in prose is passed over.                                 *)
Closes(ch) == ch = "close" /\ depth > 0

Close ==
  /\ ~inString
  /\ Look({"close"})
  /\ Closes(characters[pos])
  /\ depth' = depth - 1
  /\ candidates' = IF depth = 1 THEN Append(candidates, <<start, pos>>)
                   ELSE candidates
  /\ UNCHANGED <<characters, start, inString, escaped, found>>

Pass ==
  /\ ~inString
  /\ Look({"close", "other", "backslash"})
  /\ ~Closes(characters[pos])
  /\ UNCHANGED <<characters, depth, start, inString, escaped, candidates, found>>

(* json.loads and the shape of a call.                                      *)
IsCall(run) == SubSeq(characters, run[1], run[2]) = <<"open", "other", "close">>

FirstCall(runs) ==
  LET calls == {i \in DOMAIN runs : IsCall(runs[i])}
  IN IF calls = {} THEN <<>> ELSE <<runs[Min(calls)]>>

(* The first candidate that has the shape of a call is the call.            *)
Parse ==
  /\ pos = Len(characters) + 1
  /\ pos' = pos + 1
  /\ found' = FirstCall(candidates)
  /\ UNCHANGED <<characters, depth, start, inString, escaped, candidates>>

ScanNext == InLiteral \/ Quote \/ Open \/ Close \/ Pass \/ Parse

ScanSpec == ScanInit /\ [][ScanNext]_scanVars

-----------------------------------------------------------------------------
(* The objects of a text, from the place i on, by the grammar               *)
(*   text ::= (other | literal | object)*                                   *)
(*   object ::= { (other | literal | object)* }                             *)
(* where a literal or an object that is not closed takes in all the rest.   *)

(* The backslashes right before j, in the literal that opens at i. *)
Backslashes(i, j) ==
  {k \in i + 1 .. j - 1 : \A m \in k .. j - 1 : characters[m] = "backslash"}

(* The quotes that may close it: an even number of backslashes is before.   *)
ClosingQuotes(i) ==
  {j \in i + 1 .. Len(characters) :
    characters[j] = "quote" /\ Cardinality(Backslashes(i, j)) % 2 = 0}

(* The first of them closes it; 0 if there is none.                         *)
LiteralEnd(i) == IF ClosingQuotes(i) = {} THEN 0 ELSE Min(ClosingQuotes(i))

(* The brace that closes the object whose content goes on at i, or 0.       *)
ObjectEnd[i \in 1 .. Len(characters) + 1] ==
  LET After(end) == IF end = 0 THEN 0 ELSE ObjectEnd[end + 1]
  IN IF i > Len(characters) THEN 0
     ELSE CASE characters[i] = "close" -> i
            [] characters[i] = "open"  -> After(ObjectEnd[i + 1])
            [] characters[i] = "quote" -> After(LiteralEnd(i))
            [] OTHER                   -> ObjectEnd[i + 1]

ObjectsFrom[i \in 1 .. Len(characters) + 1] ==
  IF i > Len(characters) THEN <<>>
  ELSE LET end == CASE characters[i] = "open"  -> ObjectEnd[i + 1]
                    [] characters[i] = "quote" -> LiteralEnd(i)
                    [] OTHER                   -> i
       IN IF end = 0 THEN <<>>
          ELSE (IF characters[i] = "open" THEN << <<i, end>> >> ELSE <<>>)
                 \o ObjectsFrom[end + 1]

(* What the scanner has found at any time are the outermost objects that     *)
(* end by then, none left out and none invented, whatever braces, quotes and *)
(* backslashes surround them; and a turn is a tool call exactly when one of  *)
(* them is, the first of these.  A brace or quote left open ahead of a call  *)
(* hides it.                                                                *)
CandidatesAreObjects ==
  LET objects == ObjectsFrom[1]
  IN /\ IsPrefix(candidates, objects)
     /\ \A i \in DOMAIN objects : i \in DOMAIN candidates <=> objects[i][2] < pos
     /\ pos = Len(characters) + 2 => found = FirstCall(objects)
=============================================================================

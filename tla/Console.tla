------------------------------- MODULE Console -------------------------------
(***************************************************************************)
(* The telnet thread: TelnetServer's read callback, the one command line   *)
(* g_cmd all sessions share, and the commands it runs.  freshjzq is the    *)
(* load of Query, step by step, during which the thread reads nothing; any *)
(* other command is one step here (its call is the subject of Calls).  A   *)
(* letter stands for a piece of a word, the blank for ' ', \t and \r.      *)
(***************************************************************************)
EXTENDS Query, SequencesExt

CONSTANTS
  Client,    \* telnet sessions
  Letter,    \* what words are made of, Fresh among it
  Fresh,     \* the word freshjzq
  Blank,     \* ends a word
  Enter,     \* \n, ends a word and a line
  Erase,     \* \b
  MaxRead,   \* bound on the keys one read brings
  MaxLine    \* bound on the keys of g_cmd and of a client's line

ASSUME KeyAssumption ==
  /\ Fresh \in Letter /\ Letter \cap {Blank, Enter, Erase} = {}
  /\ Blank # Enter /\ Enter # Erase /\ Erase # Blank
ASSUME LineAssumption == MaxRead \in Nat /\ MaxLine \in Nat

VARIABLES
  g_cmd,   \* keys read and not yet run
  typed,   \* the line each client sees on its screen, while it can rely on it
  by,      \* clients that have added to g_cmd since it was last empty
  doubt    \* clients that cannot rely on the line they see

cvars == <<vars, g_cmd, typed, by, doubt>>

Key == Letter \cup {Blank, Enter, Erase}
Read == UNION {[1 .. n -> Key] : n \in 1 .. MaxRead}

CInit ==
  /\ Init
  /\ g_cmd = <<>>
  /\ typed = [c \in Client |-> <<>>]
  /\ by = {} /\ doubt = {}

(* What a client thinks its keys do to its line.                           *)
Press(line, key) ==
  CASE key = Enter -> <<>>
    [] key = Erase -> IF line = <<>> THEN line ELSE Front(line)
    [] OTHER -> Append(line, key)
Screen(line, keys) ==
  LET after[n \in 0 .. Len(keys)] ==
        IF n = 0 THEN line ELSE Press(after[n - 1], keys[n])
  IN  after[Len(keys)]

Ended(line) == Enter \in Range(line)

(* A word is what stands before a blank or a line end; keys with none      *)
(* behind them are no word yet.  An erasure inside a line is part of one.  *)
Ends(key) == key \in {Blank, Enter}
HasWord(line) ==
  \E i \in DOMAIN line : ~Ends(line[i]) /\ \E j \in i .. Len(line) : Ends(line[j])

(* The command is the first word, the others are its parameters.           *)
FirstWord(line) ==
  LET from == SelectInSeq(line, LAMBDA key : ~Ends(key))
      rest == SubSeq(line, from, Len(line))
  IN  SubSeq(rest, 1, SelectInSeq(rest, Ends) - 1)

(* Faulty variant: an erasure takes two keys.                              *)
LineEraseTwo(keys) ==
  IF Last(keys) = Erase
  THEN IF Len(g_cmd) < 2 THEN <<>> ELSE Front(Front(g_cmd))
  ELSE g_cmd \o keys

(* A read that ends with an erasure counts for that alone; other erasures  *)
(* stay in the line.                                                       *)
Line(keys) ==
  IF Last(keys) = Erase
  THEN IF g_cmd = <<>> THEN g_cmd ELSE Front(g_cmd)
  ELSE g_cmd \o keys

(* An erasure runs nothing; a line without a word stays, its end included. *)
Complete(keys) ==
  /\ Last(keys) # Erase
  /\ Ended(Line(keys)) /\ HasWord(Line(keys))

(* One line at most, and an erasure on its own.                            *)
Plain(keys) ==
  \/ keys = <<Erase>>
  \/ \A i \in DOMAIN keys :
       keys[i] \in Letter \cup {Blank} \/ (keys[i] = Enter /\ i = Len(keys))

(* What the clients' screens are worth after keys of c.                    *)
Typing(c, keys) ==
  /\ by' = IF g_cmd' = <<>> THEN {} ELSE by \cup {c}
  /\ doubt' =
       LET others == {d \in Client \ {c} : typed[d] # <<>>}
           own == IF Plain(keys) /\ Last(keys) = Enter THEN doubt \ {c}
                  ELSE IF Plain(keys) /\ ~Ended(g_cmd) /\ by \subseteq {c} THEN doubt
                  ELSE doubt \cup {c}
       IN  own \cup others
  /\ typed' = [d \in Client |-> CASE d \in doubt' -> <<>>
                                 [] d = c -> Screen(typed[c], keys)
                                 [] OTHER -> typed[d]]

CRead(c, keys) ==
  /\ Runs /\ ~Loading("telnet")
  /\ ~Complete(keys)
  /\ Len(Line(keys)) <= MaxLine
  /\ g_cmd' = Line(keys)
  /\ Typing(c, keys)
  /\ UNCHANGED vars

(* A line is complete: its command runs, and g_cmd starts anew.            *)
CCommand(c, keys) ==
  /\ Complete(keys)
  /\ g_cmd' = <<>>
  /\ Typing(c, keys)
  /\ IF FirstWord(Line(keys)) = <<Fresh>>
     THEN Begin
     ELSE Runs /\ ~Loading("telnet") /\ UNCHANGED vars

CLoad(t) == Load(t) /\ UNCHANGED <<g_cmd, typed, by, doubt>>
CTcp == (EndRound \/ NewRound \/ Save) /\ UNCHANGED <<g_cmd, typed, by, doubt>>

CNext ==
  \/ \E c \in Client, keys \in Read :
       Len(Screen(typed[c], keys)) <= MaxLine /\ (CRead(c, keys) \/ CCommand(c, keys))
  \/ \E t \in Thread : CLoad(t)
  \/ CTcp

CSpec == CInit /\ [][CNext]_cvars

CFairSpec == CSpec /\ \A t \in Thread : WF_cvars(CLoad(t))

-----------------------------------------------------------------------------
(* One command line for every session: still, a client whose keys come in  *)
(* order, while nobody else has a line begun and no empty line was left,   *)
(* has on its screen what the command will be, and it is so again after    *)
(* its next Enter whatever went wrong before.                              *)
OwnLine ==
  \A c \in Client \ doubt : typed[c] # <<>> => g_cmd = typed[c]
=============================================================================

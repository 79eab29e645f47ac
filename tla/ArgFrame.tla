------------------------------ MODULE ArgFrame ------------------------------
(***************************************************************************)
(* src/kernel/usermode.cpp, usermode_run_with_args: how the argument line  *)
(* of the shell or of the Files window gets to a ring-3 program, as words  *)
(* and bytes on the page that becomes its stack.  A blank is a space or a  *)
(* tab.  A line is shorter than ARGBUF_CAP: SHELL_MAX_COMMAND_LENGTH is    *)
(* 256 with the command's name, and the Files window's field 96.           *)
(***************************************************************************)
EXTENDS Integers, Sequences, FiniteSets, SequencesExt, FiniteSetsExt

CONSTANTS Letters, Name,   \* Name: prog_name, a sequence of letters
          ARGMAX, PageBytes, WordBytes, Alignment,  \* 16, 4096, 8 and 16
          MaxArgs          \* bound: characters of a line

VARIABLE args

Init == args = <<>>

Type(c) == Len(args) < MaxArgs /\ args' = Append(args, c)

Next == \E c \in Letters \union {" "} : Type(c)

-----------------------------------------------------------------------------

\* tokenize: a letter goes to the open token, or opens one; the loop ends when
\* argc is ARGMAX and the last token is closed.
WithLetter(t, c) ==
  IF t.open THEN [t EXCEPT !.tokens[Len(t.tokens)] = Append(@, c)]
  ELSE IF Len(t.tokens) < ARGMAX THEN [tokens |-> Append(t.tokens, <<c>>), open |-> TRUE]
  ELSE t

Tokenized(line) ==
  FoldLeft(LAMBDA t, c : IF c = " " THEN [t EXCEPT !.open = FALSE] ELSE WithLetter(t, c),
           [tokens |-> <<Name>>, open |-> FALSE], line).tokens

\* The strings with their NULs, from the top of the page down, the last token
\* first: where token i begins.  One that forgets the NUL lets them touch.
PointerTouching(tokens, i) ==
  PageBytes - FoldLeft(LAMBDA n, t : n + Len(t), 0, SubSeq(tokens, i, Len(tokens)))

Pointer(tokens, i) ==
  PageBytes - FoldLeft(LAMBDA n, t : n + Len(t) + 1, 0, SubSeq(tokens, i, Len(tokens)))

Strings(tokens) ==
  [a \in Pointer(tokens, 1) .. (PageBytes - 1) |->
     LET i == Max({k \in DOMAIN tokens : Pointer(tokens, k) <= a})
         j == a - Pointer(tokens, i) + 1
     IN  IF j <= Len(tokens[i]) THEN tokens[i][j] ELSE "NUL"]

\* Below them, aligned, the words: argc, the pointers, and two nulls.
Pushed(tokens) ==
  <<Len(tokens)>> \o [i \in DOMAIN tokens |-> Pointer(tokens, i)] \o <<0, 0>>

UserRsp(tokens) ==
  (Pointer(tokens, 1) \div Alignment) * Alignment - WordBytes * Len(Pushed(tokens))

Words(tokens) ==
  [a \in {UserRsp(tokens) + WordBytes * k : k \in 0..(Len(Pushed(tokens)) - 1)} |->
     Pushed(tokens)[(a - UserRsp(tokens)) \div WordBytes + 1]]

-----------------------------------------------------------------------------
(* What the program finds (user/crt0.asm: argc at rsp, argv behind it).    *)

\* The words of the line, by their first and last position, in order.
Spans == {s \in (DOMAIN args) \X (DOMAIN args) :
            /\ s[1] <= s[2]
            /\ \A i \in s[1]..s[2] : args[i] # " "
            /\ s[1] = 1 \/ args[s[1] - 1] = " "
            /\ s[2] = Len(args) \/ args[s[2] + 1] = " "}
Expected(k) == IF k = 0 THEN Name
               ELSE LET s == CHOOSE s \in Spans : Cardinality({t \in Spans : t[1] < s[1]}) = k - 1
                    IN  SubSeq(args, s[1], s[2])

\* The string at address a, up to its NUL, is s.
StringIs(mem, a, s) ==
  \A j \in 1..(Len(s) + 1) :
     /\ a + j - 1 \in DOMAIN mem
     /\ mem[a + j - 1] = IF j <= Len(s) THEN s[j] ELSE "NUL"

(* Whatever the line, the program finds argc, as many strings as argc says *)
(* (the program's name and the words of the line, the first ARGMAX - 1 of  *)
(* them if there are more), the NULL that ends argv and the one of an      *)
(* empty envp (usermode.cpp:41-44); all of it is on its page, and no word  *)
(* overlaps a string.                                                      *)
FrameReadsBack ==
  LET tokens == Tokenized(args)
      rsp    == UserRsp(tokens)
      words  == Words(tokens)
      argc   == words[rsp]
      argv   == [k \in 0..(argc + 1) |-> words[rsp + WordBytes * (k + 1)]]
  IN  /\ argc = Min({ARGMAX, Cardinality(Spans) + 1})
      /\ argv[argc] = 0 /\ argv[argc + 1] = 0
      /\ \A k \in 0..(argc - 1) : StringIs(Strings(tokens), argv[k], Expected(k))
      /\ rsp >= 0 /\ rsp % WordBytes = 0
      /\ \A a \in DOMAIN words : a + WordBytes <= Pointer(tokens, 1)
=============================================================================

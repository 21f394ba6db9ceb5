----------------------------- MODULE StringFun -----------------------------
(***************************************************************************)
(* 1-c-refresher: one run of stringfun, which copies its argument into a   *)
(* buffer of BUFFER_SZ bytes without a NUL, gaps made single blanks and    *)
(* the rest filled with dots, and counts, prints, reverses or replaces     *)
(* words in it.  Every loop over the buffer takes a step per turn.         *)
(*                                                                         *)
(* The buffer is the first thing on the heap: behind it are a few bytes    *)
(* that are zero and belong to it, then what malloc keeps there.           *)
(***************************************************************************)
EXTENDS Naturals, Sequences, LineChars

CONSTANTS Calls,            \* what the program is called with
          BUFFER_SZ,
          Spare,            \* bytes behind it that may be overwritten without harm
          Reach             \* bytes modelled behind those, a bound

ASSUME StringAssumption ==
    /\ BUFFER_SZ \in Nat \ {0} /\ Spare \in Nat \ {0} /\ Reach \in Nat
    /\ \A c \in Calls :
          /\ c.opt \in {"h", "c", "r", "w", "x", "other"}
          /\ c.argc \in 1..5
          /\ \A s \in {c.str, c.find, c.replace} :
                s \in Seq(STRING) /\ \A k \in DOMAIN s : s[k] \notin {NUL, "malloc"}
          /\ Len(c.replace) <= Spare + Reach

Heap == 1..(BUFFER_SZ + Spare + Reach)
Kept0 == [k \in Heap |-> IF k <= BUFFER_SZ + Spare THEN NUL ELSE "malloc"]

VARIABLES
    fpc, call,
    mem,            \* the heap, from the buffer on
    src,            \* what setup_buff has still to copy
    count, flag,    \* the counter and the flag of the loop at hand
    i, j,           \* its positions
    printed,        \* the words print_words_and_lengths has printed
    code            \* how the program ended

stringfun == <<fpc, call, mem, src, count, flag, i, j, printed, code>>

StringInit ==
    /\ fpc = "idle" /\ call = [opt |-> "h", argc |-> 1, str |-> <<>>, find |-> <<>>, replace |-> <<>>]
    /\ mem = Kept0 /\ src = <<>>
    /\ count = 0 /\ flag = FALSE /\ i = 1 /\ j = 1
    /\ printed = <<>> /\ code = 0

\* What a shell sees of a program malloc aborts.
SIGABRT == 134

Exit(c) == fpc' = "ended" /\ code' = c

\* The checks of main up to setup_buff, which skips leading white space; malloc
\* may fail.
Start ==
    /\ fpc = "idle"
    /\ call' \in Calls
    /\ \/ /\ call'.argc < 2 \/ (call'.opt # "h" /\ call'.argc < 3)
          /\ Exit(1) /\ UNCHANGED src
       \/ /\ call'.argc >= 2 /\ call'.opt = "h"
          /\ Exit(0) /\ UNCHANGED src
       \/ /\ call'.argc >= 3 /\ call'.opt # "h"
          /\ \/ Exit(2) /\ UNCHANGED src
             \/ /\ fpc' = "setup"
                /\ src' = LET s == call'.str IN
                              SubSeq(s, Skip(Append(s, NUL), 1, {Blank, Tab}), Len(s))
                /\ UNCHANGED code
    /\ UNCHANGED <<mem, count, flag, i, j, printed>>

\* Mistake: count > len.
OneOver == count > BUFFER_SZ

Full == count >= BUFFER_SZ

Store(c) == mem' = [mem EXCEPT ![count + 1] = c] /\ count' = count + 1

SetupChar ==
    /\ fpc = "setup" /\ src # <<>>
    /\ \/ /\ Full
          /\ Exit(3) /\ UNCHANGED <<src, mem, count, flag>>
       \/ /\ ~Full
          /\ src' = Tail(src)
          /\ flag' = (Head(src) \in {Blank, Tab})
          /\ IF flag' THEN IF flag THEN UNCHANGED <<mem, count>> ELSE Store(Blank)
             ELSE Store(Head(src))
          /\ UNCHANGED <<fpc, code>>
    /\ UNCHANGED <<call, i, j, printed>>

\* A trailing blank goes and dots fill the buffer; main turns to the option.
\* The loops over the buffer begin at both its ends; i = 0 says that
\* print_words_and_lengths is not in a word.
SetupEnd ==
    /\ fpc = "setup" /\ src = <<>>
    /\ LET n == IF count > 0 /\ mem[count] = Blank THEN count - 1 ELSE count
       IN  mem' = [k \in Heap |-> IF k \in (n + 1)..BUFFER_SZ THEN Dot ELSE mem[k]]
    /\ count' = 0 /\ flag' = FALSE
    /\ i' = IF call.opt = "w" THEN 0 ELSE 1
    /\ j' = IF call.opt = "r" THEN BUFFER_SZ ELSE 1
    /\ IF call.opt = "other" \/ (call.opt = "x" /\ call.argc < 5) THEN Exit(1)
       ELSE fpc' = call.opt /\ UNCHANGED code
    /\ UNCHANGED <<call, src, printed>>

\* printf allocates, and malloc looks at what it keeps behind the buffer.
Show == fpc' = "ended"
        /\ code' = IF \A k \in Heap : k > BUFFER_SZ + Spare => mem[k] = "malloc" THEN 0 ELSE SIGABRT

\* count_words: flag is in_word.
CountChar ==
    /\ fpc = "c"
    /\ IF j <= BUFFER_SZ
       THEN /\ flag' = (mem[j] # Blank)
            /\ count' = IF flag' /\ ~flag THEN count + 1 ELSE count
            /\ j' = j + 1
            /\ UNCHANGED <<fpc, code>>
       ELSE Show /\ UNCHANGED <<count, flag, j>>
    /\ UNCHANGED <<call, mem, src, i, printed>>

\* Mistake: the loop does not stop at the dots.
InBuffer == j <= BUFFER_SZ

InText == j <= BUFFER_SZ /\ mem[j] # Dot

\* print_words_and_lengths: i is start, j is ptr.
PrintChar ==
    /\ fpc = "w"
    /\ LET more == InText
           ends == i # 0 /\ (~more \/ mem[j] = Blank)
       IN  /\ printed' = IF ends THEN Append(printed, [k \in 1..(j - i) |-> mem[i + k - 1]]) ELSE printed
           /\ i' = IF ends THEN 0 ELSE IF more /\ i = 0 /\ mem[j] # Blank THEN j ELSE i
           /\ IF more THEN j' = j + 1 /\ UNCHANGED <<fpc, code>> ELSE Show /\ UNCHANGED j
    /\ UNCHANGED <<call, mem, src, count, flag>>

\* Mistake: the dots are reversed as well.
AllDots == FALSE

TrailingDot == ~flag /\ mem[j] = Dot /\ j > i

\* reverse_string: i is start, j is end, flag says that swapping has begun.
ReverseChar ==
    /\ fpc = "r"
    /\ \/ /\ TrailingDot
          /\ j' = j - 1
          /\ UNCHANGED <<fpc, code, mem, i, flag>>
       \/ /\ ~TrailingDot /\ i < j
          /\ mem' = [mem EXCEPT ![i] = mem[j], ![j] = mem[i]]
          /\ i' = i + 1 /\ j' = j - 1 /\ flag' = TRUE
          /\ UNCHANGED <<fpc, code>>
       \/ /\ ~TrailingDot /\ i >= j
          /\ Show /\ UNCHANGED <<mem, i, j, flag>>
    /\ UNCHANGED <<call, src, count, printed>>

Places(m, end, s) == {p \in 1..(end - Len(s) + 1) : \A k \in DOMAIN s : m[p + k - 1] = s[k]}

\* strncpy with the length of s.
Put(m, p, s) == [k \in DOMAIN m |-> IF k \in p..(p + Len(s) - 1) THEN s[k - p + 1] ELSE m[k]]

\* The first place of s.
FirstOf(ps) == CHOOSE p \in ps : \A q \in ps : p <= q

StrLen == First([k \in 1..(BUFFER_SZ + 1) |-> mem[k]], 1, {NUL}) - 1

\* replace_word up to its loops: count is pos.  A shorter word is copied first,
\* a longer one after the text behind the old word has moved.
FindWord ==
    /\ fpc = "x"
    /\ LET ps == Places(mem, StrLen, call.find)
           pos == FirstOf(ps)
           shift == Len(call.replace) - Len(call.find)
       IN  \/ /\ ps = {}
              /\ Exit(1) /\ UNCHANGED <<mem, count, i, j>>
           \/ /\ ps # {} /\ Len(call.replace) <= Len(call.find)
              /\ mem' = Put(mem, pos, call.replace)
              /\ count' = pos
              /\ i' = pos + Len(call.find) /\ j' = pos + Len(call.replace)
              /\ fpc' = "shrink" /\ UNCHANGED code
           \/ /\ ps # {} /\ Len(call.replace) > Len(call.find)
              /\ count' = pos
              /\ i' = IF StrLen + shift >= BUFFER_SZ THEN BUFFER_SZ ELSE StrLen + 1
              /\ j' = i' + shift
              /\ fpc' = "grow" /\ UNCHANGED <<code, mem>>
    /\ UNCHANGED <<call, src, flag, printed>>

\* i is src, j is dst.
ShrinkChar ==
    /\ fpc = "shrink"
    /\ IF mem[i] \notin {NUL, Dot}
       THEN /\ mem' = [mem EXCEPT ![j] = mem[i]]
            /\ i' = i + 1 /\ j' = j + 1
            /\ UNCHANGED fpc
       ELSE /\ mem' = [k \in Heap |-> IF k \in j..BUFFER_SZ THEN Dot ELSE mem[k]]
            /\ fpc' = "show"
            /\ UNCHANGED <<i, j>>
    /\ UNCHANGED <<call, src, count, flag, printed, code>>

\* Mistake: the NUL goes into the last byte of the buffer.
LastByte == BUFFER_SZ

\* Where replace_word writes its NUL.
ByteBehind == BUFFER_SZ + 1

GrowChar ==
    /\ fpc = "grow"
    /\ IF i >= count + Len(call.find)
       THEN /\ mem' = [mem EXCEPT ![j] = mem[i]]
            /\ i' = i - 1 /\ j' = j - 1
            /\ UNCHANGED fpc
       ELSE /\ mem' = [Put(mem, count, call.replace) EXCEPT ![ByteBehind] = NUL]
            /\ fpc' = "show"
            /\ UNCHANGED <<i, j>>
    /\ UNCHANGED <<call, src, count, flag, printed, code>>

ShowReplaced ==
    /\ fpc = "show"
    /\ Show
    /\ UNCHANGED <<call, mem, src, count, flag, i, j, printed>>

StringStep ==
    \/ SetupChar \/ SetupEnd \/ CountChar \/ PrintChar \/ ReverseChar
    \/ FindWord \/ ShrinkChar \/ GrowChar \/ ShowReplaced

StringNext == Start \/ StringStep

StringSpec == StringInit /\ [][StringNext]_stringfun

----------------------------------------------------------------------------
(* What a call means, said without a buffer                                *)

\* The words of the argument, joined by single blanks.
Text ==
    LET gap(k) == k \notin DOMAIN call.str \/ call.str[k] \in {Blank, Tab}
        at == {k \in DOMAIN call.str :
                  ~gap(k) \/ (~gap(k - 1) /\ \E l \in k..Len(call.str) : ~gap(l))}
    IN  Kept([k \in DOMAIN call.str |-> IF gap(k) THEN Blank ELSE call.str[k]], at)

\* s in the buffer: cut, or filled with dots.
Fit(s) == [k \in 1..BUFFER_SZ |-> IF k <= Len(s) THEN s[k] ELSE Dot]

Buffer == [k \in 1..BUFFER_SZ |-> mem[k]]

Ended(opt) == fpc = "ended" /\ call.opt = opt /\ code = 0

\* The loops keep to the heap that is modelled, the buffer has no NUL in it, and
\* setup_buff, count, print and reverse write nowhere else.
StringTypeOK ==
    /\ DOMAIN mem = Heap
    /\ count \in 0..(BUFFER_SZ + 1) /\ i \in 0..(BUFFER_SZ + 1) /\ j \in 0..(BUFFER_SZ + Spare + Reach)
    /\ fpc \in {"c", "w", "r", "x"} => \A k \in 1..BUFFER_SZ : mem[k] # NUL
    /\ call.opt # "x" => \A k \in Heap : k > BUFFER_SZ => mem[k] = Kept0[k]

\* A text that is too long for the buffer never gets past setup_buff, one with
\* room to spare always does, and what the options then work on is the text.
\* (One that just fits is refused if enough white space follows it.)
SetUpRight ==
    /\ fpc \in {"c", "w", "r", "x"} => Len(Text) <= BUFFER_SZ
    /\ fpc \in {"c", "w", "x"} => Buffer = Fit(Text)
    /\ code = 3 => Len(Text) >= BUFFER_SZ - 1

\* -c and -w agree, although one looks at the dots and the other stops at them:
\* both find the words of a text without dots.  A text without words counts as
\* one.
WordsFound ==
    LET ws == Tokens(Text, Blank) IN
    /\ Ended("c") => count = IF ws = <<>> THEN 1 ELSE Len(ws)
    /\ Ended("w") /\ (\A k \in DOMAIN Text : Text[k] # Dot) => printed = ws

\* -r turns the text around within itself and leaves the dots behind it.
Reversed ==
    LET n == CHOOSE k \in 0..Len(Text) :
                /\ \A l \in (k + 1)..Len(Text) : Text[l] = Dot
                /\ k > 0 => Text[k] # Dot
    IN  Ended("r") => Buffer = Fit([k \in 1..n |-> Text[n + 1 - k]])

\* -x puts the one word in the place of the other and cuts or fills the rest,
\* in place although the two overlap; what it writes behind the buffer does no
\* harm as long as the new word is longer by no more than the spare bytes, and
\* ends the program otherwise.
Replaced ==
    LET t == Fit(Text)
        ps == Places(t, BUFFER_SZ, call.find)
        p == FirstOf(ps)
    IN  /\ Ended("x") /\ (\A k \in DOMAIN Text : Text[k] # Dot) =>
              Buffer = Fit(SubSeq(t, 1, p - 1) \o call.replace
                               \o SubSeq(t, p + Len(call.find), BUFFER_SZ))
        /\ fpc = "ended" /\ code = SIGABRT =>
              call.opt = "x" /\ Len(call.replace) > Len(call.find) + Spare
        /\ Ended("x") => Len(call.replace) <= Len(call.find) + Spare
=============================================================================

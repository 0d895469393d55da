---------------------------- MODULE Blake3Compress ----------------------------
(***************************************************************************)
(* The portable compression function of blake3 (blake3_portable.cpp), on   *)
(* real words.  A word of 32 bits is a pair of halves, the higher first;   *)
(* an array is a sequence from index 1 on.  A step is a call of g, so that *)
(* what a call keeps can be told of the 56 calls of a compression.         *)
(***************************************************************************)
EXTENDS Integers, Sequences

CONSTANT Jobs   \* the compressions: their arguments and the words they give

two_to[n \in 0 .. 16] == IF n = 0 THEN 1 ELSE 2 * two_to[n - 1]

HALF_WORD == two_to[16]
Halves == 0 .. HALF_WORD - 1

\* (The counter is its two words, the lower first: counter_low, counter_high;
\* the length and the flags, of 8 bits, fit a half of a word.)
ASSUME JobsAssumption ==
  \A j \in Jobs :
    /\ j.cv \in [1 .. 8 -> Halves \X Halves]
    /\ j.block \in [1 .. 64 -> 0 .. 255]
    /\ {j.counter[1], j.counter[2]} \subseteq Halves \X Halves
    /\ {j.block_len, j.flags} \subseteq Halves

(***************************************************************************)
(* Words.                                                                  *)
(***************************************************************************)
Add(x, y) ==
  LET low == x[2] + y[2]
  IN  <<(x[1] + y[1] + (low \div HALF_WORD)) % HALF_WORD, low % HALF_WORD>>

\* Of two halves, a bit after the other.
XorHalves(a, b) ==
  LET bits[n \in 0 .. 16] ==
        IF n = 0 THEN 0
        ELSE bits[n - 1] + two_to[n - 1] * ((a \div two_to[n - 1] + b \div two_to[n - 1]) % 2)
  IN  bits[16]

XorWords(x, y) == <<XorHalves(x[1], y[1]), XorHalves(x[2], y[2])>>

\* (Mutant: a shift, which loses the bits that leave the word.)
rotr32_shift(w, c) ==
  LET s == c % 16
      x == IF c >= 16 THEN <<0, w[1]>> ELSE w
  IN  <<x[1] \div two_to[s], (x[2] \div two_to[s]) + (x[1] % two_to[s]) * two_to[16 - s]>>

rotr32(w, c) ==
  LET s == c % 16
      x == IF c >= 16 THEN <<w[2], w[1]>> ELSE w
      down(a, b) == (a \div two_to[s]) + (b % two_to[s]) * two_to[16 - s]
  IN  <<down(x[1], x[2]), down(x[2], x[1])>>

\* Four bytes, the lowest first.
load32(p) == <<p[4] * 256 + p[3], p[2] * 256 + p[1]>>

IVWords ==
  <<<<27145, 58983>>, <<47975, 44677>>, <<15470, 62322>>, <<42319, 62778>>,
    <<20750, 21119>>, <<39685, 26764>>, <<8067, 55723>>, <<23520, 52505>>>>

\* (Mutant: two words of the third round are swapped.)
MSG_SCHEDULE_swapped ==
  <<<<0, 1, 2, 3, 4, 5, 6, 7, 8, 9, 10, 11, 12, 13, 14, 15>>,
    <<2, 6, 3, 10, 7, 0, 4, 13, 1, 11, 12, 5, 9, 14, 15, 8>>,
    <<3, 4, 10, 12, 13, 2, 14, 7, 6, 5, 9, 0, 11, 15, 8, 1>>,
    <<10, 7, 12, 9, 14, 3, 13, 15, 4, 0, 11, 2, 5, 8, 1, 6>>,
    <<12, 13, 9, 11, 15, 10, 14, 8, 7, 2, 5, 3, 0, 1, 6, 4>>,
    <<9, 14, 11, 5, 8, 12, 15, 1, 13, 3, 0, 10, 2, 6, 4, 7>>,
    <<11, 15, 5, 0, 1, 9, 8, 6, 14, 10, 2, 12, 3, 4, 7, 13>>>>

MSG_SCHEDULE ==
  <<<<0, 1, 2, 3, 4, 5, 6, 7, 8, 9, 10, 11, 12, 13, 14, 15>>,
    <<2, 6, 3, 10, 7, 0, 4, 13, 1, 11, 12, 5, 9, 14, 15, 8>>,
    <<3, 4, 10, 12, 13, 2, 7, 14, 6, 5, 9, 0, 11, 15, 8, 1>>,
    <<10, 7, 12, 9, 14, 3, 13, 15, 4, 0, 11, 2, 5, 8, 1, 6>>,
    <<12, 13, 9, 11, 15, 10, 14, 8, 7, 2, 5, 3, 0, 1, 6, 4>>,
    <<9, 14, 11, 5, 8, 12, 15, 1, 13, 3, 0, 10, 2, 6, 4, 7>>,
    <<11, 15, 5, 0, 1, 9, 8, 6, 14, 10, 2, 12, 3, 4, 7, 13>>>>

(***************************************************************************)
(* The rounds.                                                             *)
(***************************************************************************)

\* The words of the state that the calls of a round mix: columns, then
\* diagonals.
Lanes == <<<<0, 4, 8, 12>>, <<1, 5, 9, 13>>, <<2, 6, 10, 14>>, <<3, 7, 11, 15>>,
           <<0, 5, 10, 15>>, <<1, 6, 11, 12>>, <<2, 7, 8, 13>>, <<3, 4, 9, 14>>>>

\* One half of g: a takes in b and a word of the message, d is turned by the
\* first distance, c takes in d, b is turned by the second.
Mix(v, x, turns) ==
  LET a == Add(Add(v.a, v.b), x)
      d == rotr32(XorWords(v.d, a), turns[1])
      c == Add(v.c, d)
  IN  [a |-> a, b |-> rotr32(XorWords(v.b, c), turns[2]), c |-> c, d |-> d]

\* The four words a call mixes.
Four(words, lane) ==
  [a |-> words[lane[1] + 1], b |-> words[lane[2] + 1],
   c |-> words[lane[3] + 1], d |-> words[lane[4] + 1]]

g(words, lane, x, y) ==
  LET w == Mix(Mix(Four(words, lane), x, <<16, 12>>), y, <<8, 7>>)
  IN  [words EXCEPT ![lane[1] + 1] = w.a, ![lane[2] + 1] = w.b,
                    ![lane[3] + 1] = w.c, ![lane[4] + 1] = w.d]

VARIABLES
  job,      \* the arguments of the compression going on, NoJob before the first
  working,  \* its sixteen words
  calls     \* calls of g it has made

compressVars == <<job, working, calls>>

CALLS == 56   \* seven rounds of eight

NoJob == [answer |-> <<>>]

CompressInit == job = NoJob /\ working = <<>> /\ calls = CALLS

\* compress_pre loads the state: the cv, half the IV, the counter's two words,
\* the length and the flags of the block.
compress_pre(j) ==
  /\ calls = CALLS
  /\ job' = j
  /\ working' = j.cv \o SubSeq(IVWords, 1, 4)
       \o <<j.counter[1], j.counter[2], <<0, j.block_len>>, <<0, j.flags>>>>
  /\ calls' = 0

\* The words of the message that a call of a round takes in.
schedule(n) ==
  LET row == MSG_SCHEDULE[(n \div 8) + 1]
      word(i) == load32(SubSeq(job.block, 4 * i + 1, 4 * i + 4))
  IN  [x |-> word(row[2 * (n % 8) + 1]), y |-> word(row[2 * (n % 8) + 2])]

\* One call of g of round_fn.
round_fn ==
  /\ calls < CALLS
  /\ working' = g(working, Lanes[(calls % 8) + 1], schedule(calls).x, schedule(calls).y)
  /\ calls' = calls + 1
  /\ UNCHANGED job

CompressNext == round_fn \/ \E j \in Jobs : compress_pre(j)

CompressSpec == CompressInit /\ [][CompressNext]_compressVars

\* What the compressions give when the rounds are over: the words of
\* compress_in_place are the first half of those of compress_xof.
compress_in_place_words(s) == [i \in 1 .. 8 |-> XorWords(s[i], s[i + 8])]
compress_xof_words(s, cv) ==
  compress_in_place_words(s) \o [i \in 1 .. 8 |-> XorWords(s[i + 8], cv[i])]

-----------------------------------------------------------------------------

\* The compressions give the words BLAKE3 is published with, on which the
\* digests of cored.h and of every other program depend bit by bit: one index
\* of the schedule or one distance of g wrong, and all of them change.
KnownAnswers ==
  job # NoJob /\ calls = CALLS =>
    SubSeq(compress_xof_words(working, job.cv), 1, Len(job.answer)) = job.answer

\* A call of g can be undone.
Sub(x, y) ==
  LET borrow == IF x[2] < y[2] THEN 1 ELSE 0
  IN  <<(x[1] - y[1] - borrow) % HALF_WORD, (x[2] - y[2]) % HALF_WORD>>
Unmix(w, x, turns) ==
  LET b == XorWords(rotr32(w.b, 32 - turns[2]), w.c)
      d == XorWords(rotr32(w.d, 32 - turns[1]), w.a)
  IN  [a |-> Sub(Sub(w.a, b), x), b |-> b, c |-> Sub(w.c, w.d), d |-> d]

\* A call of g loses nothing: the four words before it can be told from those
\* after it and the two words of the message, so that no two messages meet
\* before the last step folds the state (blake3_portable.cpp:9-19).
NothingIsLost ==
  [][calls < CALLS =>
       LET lane == Lanes[(calls % 8) + 1]
           v == Four(working, lane)
           w == Four(working', lane)
       IN  v = Unmix(Unmix(w, schedule(calls).y, <<8, 7>>), schedule(calls).x, <<16, 12>>)
    ]_compressVars
=============================================================================

------------------------------- MODULE MCDigests ------------------------------
(***************************************************************************)
(* Model checking the hash functions: the sponges of Poseidon over a small *)
(* permutation, a hasher of blake3 over symbolic compressions, and, while  *)
(* the hasher is new, the compressions of blake3, the calls of xxHash and  *)
(* the permutation of Poseidon on real words.  They share no variable, and *)
(* are taken one after the other: each is a call somebody waits for.       *)
(***************************************************************************)
EXTENDS Blake3Hasher, Blake3Compress, XxHash, PoseidonPermutation, PoseidonSponge

(***************************************************************************)
(* A permutation for PoseidonSponge: an affine map followed by a power     *)
(* that is one-to-one modulo 101, so that every element of the result      *)
(* depends on the place and the value of every element.                    *)
(***************************************************************************)
Cube(x) == (x * x * x) % 101

MCPermute(array) ==
  LET mixed[i \in -1 .. SPONGE_WIDTH - 1] ==
        IF i = -1 THEN 7 ELSE (mixed[i - 1] + (2 * i + 3) * array[i]) % 101
  IN  [i \in Places |-> Cube((mixed[SPONGE_WIDTH - 1] + (i + 1) * array[i] + 11 * i) % 101)]

AKey == {[i \in 1 .. OUT_LEN |-> "K"]}

(***************************************************************************)
(* The last block of a message of one block: flags CHUNK_START, CHUNK_END  *)
(* and ROOT.  The answers are those of the published test vectors, but for *)
(* Late's, which is what the published algorithm gives.                    *)
(***************************************************************************)
OnlyBlock(bytes, number, answer) ==
  [cv |-> IVWords,
   block |-> [i \in 1 .. 64 |-> IF i <= Len(bytes) THEN bytes[i] ELSE 0],
   counter |-> number, block_len |-> Len(bytes), flags |-> 1 + 2 + 8, answer |-> answer]

None == <<<<0, 0>>, <<0, 0>>>>   \* a counter of zero

\* The first and the second block of the output for the empty message.
Empty == OnlyBlock(<<>>, None,
   <<<<47433, 5039>>, <<42657, 63989>>, <<59981, 16544>>, <<18889, 56374>>,
     <<51493, 52123>>, <<46866, 49581>>, <<51859, 39628>>, <<25138, 8164>>,
     <<59139, 4064>>, <<27634, 39606>>, <<40944, 43647>>, <<20528, 13261>>,
     <<57567, 36147>>, <<34508, 47237>>, <<8331, 43420>>, <<14884, 2156>>>>)
EmptyNext == OnlyBlock(<<>>, <<<<0, 1>>, <<0, 0>>>>,
   <<<<30536, 62758>>, <<24822, 59529>>, <<40649, 59055>>, <<11205, 57593>>,
     <<12345, 59282>>, <<22788, 43044>>, <<30452, 37327>>, <<56027, 65529>>,
     <<11970, 368>>, <<9792, 39701>>, <<51831, 62001>>, <<64990, 62102>>,
     <<33410, 2033>>, <<13942, 20017>>, <<21276, 41881>>, <<8532, 5731>>>>)

\* A whole block, of bytes that count.
Counting == OnlyBlock([i \in 1 .. 64 |-> i - 1], None,
   <<<<16753, 60750>>, <<54364, 19178>>, <<27488, 34999>>, <<57926, 16338>>,
     <<44188, 44818>>, <<32220, 44267>>, <<51053, 19487>>, <<38939, 20978>>,
     <<27845, 40188>>, <<58367, 12728>>, <<57831, 43070>>, <<45577, 57297>>,
     <<26407, 64878>>, <<43622, 103>>, <<45347, 53378>>, <<7083, 59615>>>>)

\* The bytes of "abc"; of its output the 32 bytes of a digest.
Abc == OnlyBlock(<<97, 98, 99>>, None,
   <<<<44211, 14180>>, <<13137, 17976>>, <<30011, 46847>>, <<46477, 14887>>,
     <<18008, 50504>>, <<987, 31069>>, <<27804, 13821>>, <<34205, 48597>>>>)

\* The same bytes far behind in the output: the counter takes both its words.
Late == OnlyBlock([i \in 1 .. 64 |-> i - 1], <<<<1, 65535>>, <<3, 2>>>>,
   <<<<60213, 27976>>, <<63977, 43802>>, <<6055, 3561>>, <<21049, 38921>>,
     <<57392, 48953>>, <<24317, 56038>>, <<50039, 31750>>, <<40965, 9883>>,
     <<5772, 20890>>, <<44650, 19919>>, <<60988, 46811>>, <<45239, 23909>>,
     <<54831, 17568>>, <<13278, 43646>>, <<52774, 5922>>, <<27734, 13868>>>>)

SomeJobs == {Empty, EmptyNext, Counting, Abc, Late}

(***************************************************************************)
(* The messages xxHash is commonly shown with, of 39 and of 63 bytes, and  *)
(* bytes that count, as many as end where a loop does: after the stripes,  *)
(* after the lanes, after the words of four.                               *)
(***************************************************************************)
Nobody ==
  <<78, 111, 98, 111, 100, 121, 32, 105, 110, 115, 112, 101, 99, 116, 115, 32,
    116, 104, 101, 32, 115, 112, 97, 109, 109, 105, 115, 104, 32, 114, 101, 112,
    101, 116, 105, 116, 105, 111, 110>>

Ishmael ==
  <<67, 97, 108, 108, 32, 109, 101, 32, 73, 115, 104, 109, 97, 101, 108, 46,
    32, 83, 111, 109, 101, 32, 121, 101, 97, 114, 115, 32, 97, 103, 111, 45,
    45, 110, 101, 118, 101, 114, 32, 109, 105, 110, 100, 32, 104, 111, 119, 32,
    108, 111, 110, 103, 32, 112, 114, 101, 99, 105, 115, 101, 108, 121, 45>>

Count(size) == [i \in 1 .. size |-> i - 1]

Zero(width) == [i \in 1 .. width |-> 0]

SomeMessages ==
  {[bits |-> 64, input |-> <<>>, seed |-> Zero(8),
    answer |-> <<153, 233, 216, 81, 55, 219, 70, 239>>],
   [bits |-> 64, input |-> Nobody, seed |-> Zero(8),
    answer |-> <<241, 139, 55, 138, 60, 168, 206, 251>>],
   [bits |-> 64, input |-> Ishmael, seed |-> Zero(8),
    answer |-> <<150, 253, 214, 112, 84, 232, 162, 2>>],
   [bits |-> 64, input |-> Count(32), seed |-> Zero(8),
    answer |-> <<180, 50, 255, 22, 81, 156, 245, 203>>],
   [bits |-> 64, input |-> Count(8), seed |-> Zero(8),
    answer |-> <<141, 27, 184, 20, 54, 23, 74, 136>>],
   [bits |-> 64, input |-> Count(12), seed |-> <<1, 2, 3, 4, 5, 6, 7, 8>>,
    answer |-> <<175, 145, 240, 117, 205, 71, 66, 21>>],
   [bits |-> 32, input |-> Count(16), seed |-> Zero(4), answer |-> <<244, 55, 40, 183>>],
   [bits |-> 32, input |-> Count(20), seed |-> <<1, 2, 3, 4>>,
    answer |-> <<209, 136, 213, 147>>],
   [bits |-> 32, input |-> <<97>>, seed |-> Zero(4), answer |-> <<86, 116, 13, 85>>],
   [bits |-> 32, input |-> Nobody, seed |-> Zero(4), answer |-> <<47, 59, 41, 226>>]}

(***************************************************************************)
(* Permutations of the vectors Poseidon over this field is published with: *)
(* of numbers that count, and of the greatest element everywhere.          *)
(***************************************************************************)
CountingElements ==
  [input |-> [i \in 1 .. 12 |-> <<0, 0, 0, i - 1>>],
   output |->
   <<<<\hD64E, \h1E3E, \hFC5B, \h8E9E>>, <<\h5366, \h6633, \h020A, \hAA47>>,
     <<\hD402, \h8559, \h7C6A, \h8825>>, <<\h613A, \h4F81, \hE812, \h31D2>>,
     <<\h4147, \h54BF, \hEBD0, \h51F0>>, <<\hCB1F, \h8980, \h294A, \h023F>>,
     <<\h6EB2, \hA9E4, \hD54A, \h9D0F>>, <<\h1902, \hBC3A, \hF467, \hE056>>,
     <<\hF045, \hD5EA, \hFDC6, \h021F>>, <<\hE415, \h0F77, \hCAAA, \h3BE5>>,
     <<\hC9BF, \hD01D, \h39B5, \h0CCE>>, <<\h5C0A, \h27FC, \hB0E1, \h459B>>>>]

GreatestElements ==
  [input |-> [i \in 1 .. 12 |-> <<\hFFFF, \hFFFF, 0, 0>>],
   output |->
   <<<<\hBE00, \h85CF, \hC57A, \h8357>>, <<\hD95A, \hF718, \h47D0, \h5C09>>,
     <<\hCF55, \hA13D, \h33C1, \hC953>>, <<\h9580, \h3A74, \hF453, \h0E82>>,
     <<\hFCD9, \h9EB3, \h0A13, \h5DF1>>, <<\hE095, \h905E, \h913A, \h3029>>,
     <<\hDE03, \h9246, \h1B42, \h919B>>, <<\h7D32, \h60E2, \h4E81, \hD031>>,
     <<\h10D3, \hD046, \h5D9D, \hEAA0>>, <<\hA875, \h7108, \h3DFC, \h2A47>>,
     <<\hE182, \h6368, \h1E99, \h58F8>>, <<\hE28E, \h96F1, \hAE5E, \h60D3>>>>]

SomePermutations == {CountingElements, GreatestElements}

\* The call of a sponge that the other calls follow: the hash of no elements.
HashesNothing ==
  /\ call.function = "linear_hash" /\ call.input = <<>>
  /\ \A i \in DOMAIN output : output[i] = 0
  /\ \A i \in Places : state[i] = 0

DigestsInit ==
  /\ SpongeInit /\ HasherInit /\ CompressInit /\ XxInit /\ PermutationInit
  /\ HashesNothing \/ mode.kind = "plain"

\* One kind of call is under way, or none and the hasher is new.
Only(kind) ==
  /\ phase = "returned" /\ HashesNothing
  /\ kind = "hasher" \/ (mode.kind = "plain" /\ fed = 0)
  /\ kind = "compression" \/ job = NoJob
  /\ kind = "xxhash" \/ request = NoCall
  /\ kind = "permutation" \/ given = NoInput

DigestsNext ==
  \/ SpongeNext /\ UNCHANGED <<hasherVars, compressVars, xxhashVars, permutationVars>>
  \/ /\ Only("hasher")
     /\ HasherNext /\ UNCHANGED <<vars, compressVars, xxhashVars, permutationVars>>
  \/ /\ Only("compression")
     /\ CompressNext /\ UNCHANGED <<vars, hasherVars, xxhashVars, permutationVars>>
  \/ /\ Only("xxhash")
     /\ XxNext /\ UNCHANGED <<vars, hasherVars, compressVars, permutationVars>>
  \/ /\ Only("permutation")
     /\ PermutationNext /\ UNCHANGED <<vars, hasherVars, compressVars, xxhashVars>>

DigestsSpec ==
  /\ DigestsInit
  /\ [][DigestsNext]_<<vars, hasherVars, compressVars, xxhashVars, permutationVars>>
  /\ WF_vars(SpongeNext)
=============================================================================

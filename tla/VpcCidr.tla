------------------------------ MODULE VpcCidr ------------------------------
(***************************************************************************)
(* VpcCidrChecker (nfm-controller/src/utils/vpc_cidr_checker.rs): the CIDR *)
(* blocks of the host's VPC, read once from the instance metadata service, *)
(* and the test of an address against them, on words of Width bits.  IPv4  *)
(* and IPv6 differ in Width only.                                          *)
(***************************************************************************)
EXTENDS Integers, Sequences, SequencesExt, Bitwise

CONSTANTS Width,        \* 32 or 128
          MaxPrefix,    \* bound: prefix lengths that are printed, some too long
          MaxLines      \* bound: lines of an answer

Words == 0..(2^Width - 1)

\* A line "ip/prefix", or one that does not parse.
Malformed == [ip |-> -1, prefix |-> 0]
Lines == [ip : Words, prefix : 0..MaxPrefix] \cup {Malformed}

VARIABLES
  macs,        \* the MAC addresses listed by the metadata service
  blocks,      \* MAC address -> the lines of its vpc-ipvX-cidr-blocks
  vpc_cidrs,   \* the <<network, mask>> pairs that were read
  pc           \* "new" or "loaded"

vars == <<macs, blocks, vpc_cidrs, pc>>

\* Every interface of the host lies in the same VPC; an interface whose request
\* failed answers with no lines.
Init ==
  /\ macs \in {<<>>, <<"m1">>, <<"m1", "m2">>}
  /\ \E answer \in SeqOf(Lines, MaxLines), failing \in SUBSET {"m1"} :
       blocks = [m \in {"m1", "m2"} |-> IF m \in failing THEN <<>> ELSE answer]
  /\ vpc_cidrs = <<>>
  /\ pc = "new"

-----------------------------------------------------------------------------
shl(word, n) == (word * 2^n) % 2^Width

\* Mutant of mask_of: no case for the empty prefix; a shift by the whole width
\* is taken modulo the width and leaves the word as it is.
mask_of_Shift(prefix_len) == shl(2^Width - 1, (Width - prefix_len) % Width)

mask_of(prefix_len) == IF prefix_len = 0 THEN 0 ELSE shl(2^Width - 1, Width - prefix_len)

network_of(ip, mask) == ip & mask

\* parse_cidr_v4 and parse_cidr_v6: a pair, or nothing.
parse_cidr(line) ==
  IF line = Malformed \/ line.prefix > Width THEN <<>>
  ELSE <<<<network_of(line.ip, mask_of(line.prefix)), mask_of(line.prefix)>>>>

\* get_vpc_cidrs_with_provider: the blocks of the first interface.
get_vpc_cidrs_with_provider ==
  /\ pc = "new" /\ pc' = "loaded"
  /\ vpc_cidrs' = IF macs = <<>> THEN <<>>
                  ELSE FlattenSeq([i \in DOMAIN blocks[Head(macs)] |-> parse_cidr(blocks[Head(macs)][i])])
  /\ UNCHANGED <<macs, blocks>>

is_vpc_ip(ip) == \E i \in DOMAIN vpc_cidrs : (ip & vpc_cidrs[i][2]) = vpc_cidrs[i][1]

Next == get_vpc_cidrs_with_provider

Spec == Init /\ [][Next]_vars

-----------------------------------------------------------------------------
\* The reference: an address lies in a block when their first prefix bits agree.
Lies(ip, line) ==
  /\ line # Malformed /\ line.prefix <= Width
  /\ ip \div 2^(Width - line.prefix) = line.ip \div 2^(Width - line.prefix)

\* is_vpc_ip decides membership in the blocks of the first interface, for every
\* prefix length from none to the whole word, with block addresses whose host
\* bits are set, and with lines that do not parse left out
\* (parse_cidr_v4, parse_cidr_v6, is_vpc_ip).
DecidesMembership ==
  pc = "loaded" /\ macs # <<>> =>
    \A ip \in Words : is_vpc_ip(ip) <=> \E i \in DOMAIN blocks[Head(macs)] : Lies(ip, blocks[Head(macs)][i])
=============================================================================

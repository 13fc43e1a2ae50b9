----------------------------- MODULE RequestFormat ----------------------------
(***************************************************************************)
(* A request is taken apart three times on its way from Kamailio to the    *)
(* kernel: by str.split in the server, by strtok in the child of           *)
(* user_space, and by strsep in the kernel module.  They differ in what    *)
(* they make of two spaces in a row, and only a setup is put together      *)
(* again in between.  This module says which requests all three read       *)
(* alike.                                                                  *)
(*                                                                         *)
(* A text is the sequence of its fields, cut at each space: Blank is the   *)
(* empty field, and k is the field that holds token k of the request,      *)
(* counted from 1:                                                         *)
(*     1 request_id   2 command    3 src_ip    4 dst_ip   5 s_nat_ip       *)
(*     6 d_nat_ip     7 src_port   8 dst_port  9 s_nat_port                *)
(*    10 d_nat_port  11 timeout   12 call_id                               *)
(* The commands are "S" and "D", and a request_id begins with neither.     *)
(***************************************************************************)
EXTENDS Integers, Sequences, FiniteSetsExt

CONSTANTS
  Text,     \* the texts that may arrive
  Learned   \* ports the child may have learned, by the token they replace

Blank == 0
Command == {"S", "D"}

(* The field that is token k is called k.                                  *)
Numbered(s) ==
  \A i \in DOMAIN s :
    s[i] # Blank => s[i] = Cardinality({j \in 1 .. i : s[j] # Blank})

ASSUME FormatAssumption ==
  /\ Text \subseteq Seq(Nat)
  /\ \A s \in Text : Numbered(s)
  /\ DOMAIN Learned = {7, 10}

VARIABLES
  original,  \* the datagram
  command,   \* what its token 2 is
  text,      \* the request as it is sent on
  stage,     \* how far it has come
  parsed     \* what lrkp_nl_recv_msg makes of it

vars == <<original, command, text, stage, parsed>>

NotParsed == [teardown |-> FALSE, key_s1 |-> <<>>, key_s2 |-> <<>>]

-----------------------------------------------------------------------------
(* The three ways to take a text apart.                                    *)

(* The fields of s at the positions in keep.                               *)
Kept(s, keep) ==
  LET nth == [k \in 1 .. Cardinality(keep) |->
                CHOOSE i \in keep :
                  Cardinality({j \in keep : j <= i}) = k]
  IN  [k \in DOMAIN nth |-> s[nth[k]]]

Tokens(s) == {i \in DOMAIN s : s[i] # Blank}

(* strip(): without the blanks at both ends.                               *)
Stripped(s) ==
  IF Tokens(s) = {} THEN <<>> ELSE SubSeq(s, Min(Tokens(s)), Max(Tokens(s)))

(* replace("  ", " "): of the blanks in a row, every other one goes.       *)
Halved(s) ==
  LET row(i) == i - Max({0} \union {j \in Tokens(s) : j < i}) IN
  Kept(s, {i \in DOMAIN s : s[i] # Blank \/ row(i) % 2 = 0})

PythonFields(s) == Halved(Stripped(s))

(* strtok skips all blanks, strsep none.                                   *)
strtok(s) == Kept(s, Tokens(s))

strsep(s) == s

Field(s, cnt) == IF cnt + 1 \in DOMAIN s THEN s[cnt + 1] ELSE Blank

-----------------------------------------------------------------------------
Init ==
  /\ original \in Text
  /\ command \in Command
  /\ text = original
  /\ stage = "datagram"
  /\ parsed = NotParsed

(* get_request_id_and_command finds both, and the command is one of ours.  *)
Accepted(s) ==
  LET data == PythonFields(s) IN
  Len(data) >= 2 /\ data[1] = 1 /\ data[2] = 2

Receive ==
  /\ stage = "datagram"
  /\ stage' = IF Accepted(text) THEN "queued" ELSE "rejected"
  /\ UNCHANGED <<original, command, text, parsed>>

(* data_request_handler: with eleven fields get_call_id raises IndexError. *)
SendOn ==
  /\ stage = "queued"
  /\ stage' = IF Len(PythonFields(text)) = 11 THEN "raised" ELSE "relayed"
  /\ UNCHANGED <<original, command, text, parsed>>

(* Mutant: the text goes on as it came, with the ports put in place.       *)
RejoinedAsCame(s) ==
  [i \in DOMAIN s |-> IF s[i] \in DOMAIN Learned THEN Learned[s[i]] ELSE s[i]]

(* The tokens that strtok found, with the two ports that were learned, one *)
(* space after each.                                                       *)
Rejoined(s) ==
  LET tokens == strtok(s) IN
  Append([k \in DOMAIN tokens |->
            IF k \in DOMAIN Learned THEN Learned[k] ELSE tokens[k]], Blank)

(* childbufarry has room for 15 tokens; strtok's loop goes on after them.  *)
(* Of a setup ten are used, set or not.  What happens to a request that    *)
(* has more or fewer is undefined.                                         *)
Readable(s) ==
  /\ Cardinality(Tokens(s)) <= 15
  /\ command = "S" => Cardinality(Tokens(s)) >= 10

(* The child.  It tells a setup by the first letter of the second token,   *)
(* and puts it together again.                                             *)
Relay ==
  /\ stage = "relayed"
  /\ stage' = IF Readable(text) THEN "kernel" ELSE "undefined"
  /\ text' = IF Readable(text) /\ command = "S" THEN Rejoined(text) ELSE text
  /\ UNCHANGED <<original, command, parsed>>

(* Mutant: the second key is made of the source port, as in the            *)
(* commented-out line 294.                                                 *)
KeysBySource(s) ==
  [key_s1 |-> <<Field(s, 5), Field(s, 7)>>,
   key_s2 |-> <<Field(s, 2), Field(s, 6)>>]

(* By the counter of the strsep loop.  A blank for an address or a port    *)
(* leaves that part of the key undefined, as a missing token does.         *)
Keys(s) ==
  [key_s1 |-> <<Field(s, 5), Field(s, 7)>>,
   key_s2 |-> <<Field(s, 2), Field(s, 8)>>]

Parse ==
  /\ stage = "kernel"
  /\ LET fields == strsep(text) IN
     parsed' = [teardown |-> Field(fields, 1) = 2 /\ command = "D",
                key_s1 |-> Keys(fields).key_s1,
                key_s2 |-> Keys(fields).key_s2]
  /\ stage' = "parsed"
  /\ UNCHANGED <<original, command, text>>

Next == Receive \/ SendOn \/ Relay \/ Parse

Spec == Init /\ [][Next]_vars
-----------------------------------------------------------------------------
(* Properties.                                                             *)

Request(n) == [k \in 1 .. n |-> k]

(* A setup that arrives in the kernel, with a number of tokens that the    *)
(* child has room for, is read there as it was meant: its keys are those   *)
(* of its own tokens, however many spaces the server let pass between      *)
(* them, and it is never taken for a teardown.                             *)
SetupAsMeant ==
  stage = "parsed" /\ command = "S" =>
    /\ ~parsed.teardown
    /\ parsed.key_s1 = Keys(Request(12)).key_s1
    /\ parsed.key_s2 = Keys(Request(12)).key_s2

(* Nothing but the request's own fields up to token k.                     *)
PlainUpTo(s, k) == Len(s) >= k /\ SubSeq(s, 1, k) = Request(k)

(* The keys under which a setup of the same tokens, put together again     *)
(* with other ports, is in the table.                                      *)
SetupKeys == Keys(strsep(Rejoined(Request(12))))

(* A teardown, which is passed on as it came, finds what its setup put in  *)
(* the table exactly if there is no second space up to the last token that *)
(* goes into the keys.  A space more, which the server passes over and     *)
(* strtok too, makes it a teardown of other keys if it is after the        *)
(* command, and a setup if it is before.                                   *)
TeardownFindsSetup ==
  stage = "parsed" /\ command = "D" =>
    /\ parsed.teardown <=> PlainUpTo(original, 2)
    /\ (/\ parsed.teardown
        /\ parsed.key_s1 = SetupKeys.key_s1
        /\ parsed.key_s2 = SetupKeys.key_s2)
       <=> PlainUpTo(original, 9)
=============================================================================

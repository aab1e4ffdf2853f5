---------------------------------- MODULE DnsAnswer ----------------------------------
(***************************************************************************)
(* The parser of DNS answers (src/src/doh.rs), on packets of bytes.        *)
(*                                                                         *)
(* A packet comes from outside: an encoded message, possibly cut short.  A *)
(* message has questions and records; names are given as they are encoded, *)
(* labels and compression pointers alike, since the parser only skips them.*)
(***************************************************************************)
EXTENDS Integers, Sequences

Bytes == 0 .. 255
Words == 0 .. 65535
High(n) == n \div 256
Low(n) == n % 256

(* A name: labels, each its length and as many bytes, and then either a    *)
(* zero or a pointer of two bytes.                                         *)
IsName(name) ==
  \E starts \in SUBSET (0 .. Len(name) - 1) :
    /\ 0 \in starts
    /\ \A p \in starts :
         LET length == name[p + 1] IN
         \/ length = 0 /\ p + 1 = Len(name)
         \/ length >= 192 /\ p + 2 = Len(name)
         \/ length \in 1 .. 191 /\ p + length + 1 \in starts

(* "announced" is the number of records the header speaks of.              *)
IsMessage(m) ==
  /\ m.questions \in Seq(Seq(Bytes)) /\ Len(m.questions) \in Words
  /\ \A i \in DOMAIN m.questions : IsName(m.questions[i])
  /\ m.records \in Seq([name : Seq(Bytes), type : Words, data : Seq(Bytes)])
  /\ \A i \in DOMAIN m.records : IsName(m.records[i].name) /\ Len(m.records[i].data) \in Words
  /\ m.announced \in Words

(* The encoding of a message: header, questions (name, type, class) and    *)
(* records (name, type, class, time to live, length of the data, data);    *)
(* what has been written after each of them.                               *)
Written(start, parts) ==
  LET upTo[i \in 0 .. Len(parts)] == IF i = 0 THEN start ELSE upTo[i - 1] \o parts[i]
  IN  upTo

Header(m) ==
  LET asked == Len(m.questions) IN
  <<18, 52, 129, 128, High(asked), Low(asked), High(m.announced), Low(m.announced), 0, 0, 0, 0>>
EncodeQuestion(name) == name \o <<0, 1, 0, 1>>
EncodeRecord(r) ==
  LET len == Len(r.data) IN
  r.name \o <<High(r.type), Low(r.type), 0, 1, 0, 0, 0, 60, High(len), Low(len)>> \o r.data

Asked(m) == Written(Header(m), [i \in DOMAIN m.questions |-> EncodeQuestion(m.questions[i])])
Answered(m) ==
  Written(Asked(m)[Len(m.questions)], [i \in DOMAIN m.records |-> EncodeRecord(m.records[i])])
Encode(m) == Answered(m)[Len(m.records)]

(* What a packet of n bytes still says: the addresses of the records that  *)
(* the header announces and that are there to their last byte.             *)
IsAddress(r) == (r.type = 1 /\ Len(r.data) = 4) \/ (r.type = 28 /\ Len(r.data) = 16)
Says(m, n) ==
  LET Arrived(i) == i <= m.announced /\ Len(Answered(m)[i]) <= n
  IN  {m.records[i].data :
         i \in {j \in DOMAIN m.records : Arrived(j) /\ IsAddress(m.records[j])}}

-----------------------------------------------------------------------------
(* The byte at a position, counted from 0 as in the code, and a u16.       *)
ByteAt(data, pos) == data[pos + 1]
U16At(data, pos) == ByteAt(data, pos) * 256 + ByteAt(data, pos + 1)

(* skip_name.                                                              *)
SkipNameShort(data, start) ==
  LET skip[pos \in Nat] ==
        IF pos >= Len(data) \/ ByteAt(data, pos) = 0 THEN pos + 1
        ELSE IF ByteAt(data, pos) >= 192 THEN pos + 1
        ELSE skip[pos + ByteAt(data, pos) + 1]
  IN  skip[start]
SkipName(data, start) ==
  LET skip[pos \in Nat] ==
        IF pos >= Len(data) \/ ByteAt(data, pos) = 0 THEN pos + 1
        ELSE IF ByteAt(data, pos) >= 192 THEN pos + 2
        ELSE skip[pos + ByteAt(data, pos) + 1]
  IN  skip[start]

(* A turn of the loop over the questions, and of the one over the records: *)
(* where it goes on and what has been found.  A return or a break leaves   *)
(* it for good.                                                            *)
Left == -1
ParseQuestion(data, s) ==
  LET pos == SkipName(data, s.pos) + 4 IN
  [pos |-> IF s.pos = Left \/ pos > Len(data) THEN Left ELSE pos, found |-> s.found]

ParseRecord(data, s) ==
  LET pos == SkipName(data, s.pos)
      type == U16At(data, pos)
      len == U16At(data, pos + 8)
      rdata == SubSeq(data, pos + 11, pos + 10 + len)
  IN  IF s.pos = Left \/ s.pos + 10 > Len(data) \/ pos + 10 > Len(data)
           \/ pos + 10 + len > Len(data)
      THEN [pos |-> Left, found |-> s.found]
      ELSE [pos |-> pos + 10 + len,
            found |-> IF (type = 1 /\ len = 4) \/ (type = 28 /\ len = 16)
                      THEN s.found \cup {rdata} ELSE s.found]

(* parse_dns_response: where the loops are after each turn.                *)
Begin == [pos |-> 12, found |-> {}]
Questions(data) ==
  LET turn[i \in Nat] == IF i = 0 THEN Begin ELSE ParseQuestion(data, turn[i - 1]) IN turn
Records(data) ==
  LET turn[i \in Nat] ==
        IF i = 0 THEN Questions(data)[U16At(data, 4)] ELSE ParseRecord(data, turn[i - 1])
  IN  turn
ParseDnsResponse(data) == IF Len(data) < 12 THEN {} ELSE Records(data)[U16At(data, 6)].found
=============================================================================

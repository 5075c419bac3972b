------------------------- MODULE InstrStagedProofs -------------------------
(* Proofs about the instructions that move PC or SP, for a byte of any size *)
(* and any contents of memory.                                              *)
EXTENDS InstrStaged, SequenceTheorems, TLAPS

(* uint8_t arithmetic wraps and never leaves the byte.                      *)
LEMMA UpDownFacts ==
  ASSUME NEW b \in Byte
  PROVE  Up(b) \in Byte /\ Down(b) \in Byte /\ Up(Down(b)) = b /\ Down(Up(b)) = b
  BY RadixAssumption DEF Up, Down, Byte

(* uint16_t arithmetic: offsets of up to a page.                            *)
LEMMA PlusFacts ==
  ASSUME NEW p \in Addr, NEW d \in Int, - Radix <= d, d <= Radix
  PROVE  Plus(p, d) \in Addr
  BY UpDownFacts, RadixAssumption DEF Plus, Addr, Hi, Lo, Byte

(* Addresses, the bytes in memory and the vectors are of their types.       *)
LEMMA AddrFacts ==
  /\ \A p \in Addr : Inc(p) \in Addr /\ Hi(p) \in Byte /\ Lo(p) \in Byte /\ ROM[p] \in Byte
  /\ \A p \in Addr : Word(p) \in Addr /\ Low(p) \in Addr
  /\ \A p \in Addr, b \in Byte : Plus(p, b) \in Addr /\ Plus(p, Signed(b)) \in Addr
  /\ \A p \in Addr, s \in State : Pointer(s, p) \in Addr
  /\ NmiVector \in Addr /\ IrqVector \in Addr
  /\ 0 \in Byte
  <1>1. \A p \in Addr : Inc(p) \in Addr
    BY PlusFacts, RadixAssumption DEF Inc
  <1>2. \A p \in Addr : Hi(p) \in Byte /\ Lo(p) \in Byte /\ ROM[p] \in Byte
    BY ROMAssumption DEF Hi, Lo, Addr
  <1>3. 0 \in Byte /\ NmiVector \in Addr /\ IrqVector \in Addr
    BY RadixAssumption DEF NmiVector, IrqVector, Addr, Byte
  <1>4. \A p \in Addr : Word(p) \in Addr /\ Low(p) \in Addr
    BY <1>1, <1>2, <1>3 DEF Word, Low, Addr
  <1>5. \A p \in Addr, b \in Byte : Plus(p, b) \in Addr /\ Plus(p, Signed(b)) \in Addr
    <2> SUFFICES ASSUME NEW p \in Addr, NEW b \in Byte
                 PROVE  Plus(p, b) \in Addr /\ Plus(p, Signed(b)) \in Addr
      OBVIOUS
    <2>1. b \in Int /\ - Radix <= b /\ b <= Radix
      BY RadixAssumption DEF Byte
    <2>2. Signed(b) \in Int /\ - Radix <= Signed(b) /\ Signed(b) <= Radix
      BY RadixAssumption DEF Byte, Signed, Negative
    <2> QED
      BY <2>1, <2>2, PlusFacts
  <1>6. \A p \in Addr, s \in State : Pointer(s, p) \in Addr
    BY <1>1, <1>2, <1>3 DEF Pointer, Addr
  <1> QED
    BY <1>1, <1>2, <1>3, <1>4, <1>5, <1>6

(* The sum of SP and a depth, around the end of the page.                   *)
LEMMA ModFacts ==
  ASSUME NEW a \in Byte, NEW i \in Nat, i <= Radix
  PROVE  (a + i) % Radix = IF a + i < Radix THEN a + i ELSE a + i - Radix
  BY RadixAssumption DEF Byte

(* Moving SP and the depth by one in opposite directions is no move, and    *)
(* within a page no two depths coincide.                                    *)
LEMMA WrapFacts ==
  ASSUME NEW a \in Byte, NEW i \in Nat, i < Radix
  PROVE  /\ (Up(a) + i) % Radix = (a + (i + 1)) % Radix
         /\ (Down(a) + (i + 1)) % Radix = (a + i) % Radix
         /\ (a + i) % Radix \in Byte
         /\ (a + i) % Radix = a <=> i = 0
  <1> DEFINE x == (Up(a) + i) % Radix
             y == (a + (i + 1)) % Radix
             z == (Down(a) + (i + 1)) % Radix
             w == (a + i) % Radix
  <1>1. /\ x = IF Up(a) + i < Radix THEN Up(a) + i ELSE Up(a) + i - Radix
        /\ y = IF a + (i + 1) < Radix THEN a + (i + 1) ELSE a + (i + 1) - Radix
        /\ z = IF Down(a) + (i + 1) < Radix THEN Down(a) + (i + 1)
                                            ELSE Down(a) + (i + 1) - Radix
        /\ w = IF a + i < Radix THEN a + i ELSE a + i - Radix
    <2>1. Up(a) \in Byte /\ Down(a) \in Byte /\ i + 1 \in Nat /\ i + 1 <= Radix /\ i <= Radix
      BY UpDownFacts, RadixAssumption
    <2> QED
      BY <2>1, ModFacts
  <1> HIDE DEF x, y, z, w
  <1>2. x = y
    BY <1>1, RadixAssumption DEF Up, Byte
  <1>3. z = w
    BY <1>1, RadixAssumption DEF Down, Byte
  <1>4. w \in Byte /\ (w = a <=> i = 0)
    BY <1>1, RadixAssumption DEF Byte
  <1> QED
    BY <1>2, <1>3, <1>4 DEF x, y, z, w

-----------------------------------------------------------------------------
(* Two states that agree in every register and in page one are the same.    *)
LEMMA SameState ==
  ASSUME NEW s \in State, NEW t \in State, s.isa = t.isa, s.A = t.A, s.X = t.X, s.Y = t.Y,
         s.SP = t.SP, s.PC = t.PC, s.SR = t.SR, s.page1 = t.page1
  PROVE  s = t
  BY DEF State

(* The bytes a program puts on the stack.                                   *)
LEMMA CellFacts ==
  /\ \A n \in Byte : Num(n) \in Cell /\ Num(n).byte = n
  /\ \A S \in SUBSET Bits : Status(S) \in Cell /\ Status(S).status = S
  BY DEF Cell, Num, Status

(* A push stores at SP, lowers it, and leaves the other registers alone.    *)
LEMMA PushFacts ==
  ASSUME NEW s \in State, NEW cell \in Cell
  PROVE  /\ Push(s, cell) \in State
         /\ Push(s, cell).isa = s.isa
         /\ Push(s, cell).A = s.A /\ Push(s, cell).X = s.X /\ Push(s, cell).Y = s.Y
         /\ Push(s, cell).PC = s.PC /\ Push(s, cell).SR = s.SR
         /\ Push(s, cell).SP = Down(s.SP)
         /\ Push(s, cell).page1 = [s.page1 EXCEPT ![s.SP] = cell]
  BY UpDownFacts DEF Push, State

(* A pop raises SP and leaves everything else alone.                        *)
LEMMA PopFacts ==
  ASSUME NEW s \in State
  PROVE  /\ Pop(s) \in State /\ Popped(s) \in Cell
         /\ Pop(s).isa = s.isa
         /\ Pop(s).A = s.A /\ Pop(s).X = s.X /\ Pop(s).Y = s.Y
         /\ Pop(s).PC = s.PC /\ Pop(s).SR = s.SR /\ Pop(s).page1 = s.page1
         /\ Pop(s).SP = Up(s.SP)
  BY UpDownFacts DEF Pop, Popped, State

(* Jumps change PC only.                                                    *)
LEMMA JumpFacts ==
  ASSUME NEW s \in State, NEW p \in Addr
  PROVE  /\ Jump(s, p) \in State
         /\ Jump(s, p).isa = s.isa
         /\ Jump(s, p).A = s.A /\ Jump(s, p).X = s.X /\ Jump(s, p).Y = s.Y
         /\ Jump(s, p).SP = s.SP /\ Jump(s, p).SR = s.SR /\ Jump(s, p).page1 = s.page1
         /\ Jump(s, p).PC = p
  BY DEF Jump, State

(* Fetching a byte of the instruction steps over it.                        *)
LEMMA FetchedFacts ==
  ASSUME NEW s \in State
  PROVE  /\ Fetched(s) \in State /\ s.PC \in Addr
         /\ Fetched(s).isa = s.isa
         /\ Fetched(s).A = s.A /\ Fetched(s).X = s.X /\ Fetched(s).Y = s.Y
         /\ Fetched(s).SP = s.SP /\ Fetched(s).SR = s.SR /\ Fetched(s).page1 = s.page1
         /\ Fetched(s).PC = Inc(s.PC)
  BY AddrFacts DEF Fetched, State

(* Setting the status changes SR only.                                      *)
LEMMA StatusFacts ==
  ASSUME NEW s \in State, NEW S \in SUBSET Bits
  PROVE  LET t == [s EXCEPT !.SR = S]
         IN  /\ t \in State /\ t.SR = S
             /\ t.isa = s.isa /\ t.A = s.A /\ t.X = s.X /\ t.Y = s.Y
             /\ t.SP = s.SP /\ t.PC = s.PC /\ t.page1 = s.page1
  BY DEF State

(* So does masking interrupts, which leaves no mark in it.                  *)
LEMMA MaskIrqFacts ==
  ASSUME NEW s \in State
  PROVE  /\ MaskIrq(s) \in State /\ "I" \in MaskIrq(s).SR
         /\ MaskIrq(s).SR \cap Marks = s.SR \cap Marks
         /\ MaskIrq(s).SR = (s.SR \cup {"I"}) \ (IF s.isa = "65C02" THEN {"D"} ELSE {})
         /\ MaskIrq(s).isa = s.isa
         /\ MaskIrq(s).A = s.A /\ MaskIrq(s).X = s.X /\ MaskIrq(s).Y = s.Y
         /\ MaskIrq(s).SP = s.SP /\ MaskIrq(s).PC = s.PC /\ MaskIrq(s).page1 = s.page1
  BY DEF MaskIrq, State, Bits, Marks

(* A push or pull is about one of three registers.                          *)
LEMMA RegisterFacts ==
  ASSUME NEW s \in State, NEW op, NEW v \in Byte
  PROVE  LET r == Register(op)
             t == [s EXCEPT ![r] = v]
         IN  /\ s[r] \in Byte
             /\ t \in State /\ t[r] = v
             /\ t.isa = s.isa /\ t.SP = s.SP /\ t.PC = s.PC /\ t.SR = s.SR
             /\ t.page1 = s.page1
  <1>1. Register(op) \in {"A", "X", "Y"}
    BY DEF Register
  <1>2. CASE Register(op) = "A"
    BY <1>2 DEF State
  <1>3. CASE Register(op) = "X"
    BY <1>3 DEF State
  <1>4. CASE Register(op) = "Y"
    BY <1>4 DEF State
  <1> QED
    BY <1>1, <1>2, <1>3, <1>4

(* Z and N follow the value; no other bit of SR, and no register, changes.  *)
LEMMA DidSetFacts ==
  ASSUME NEW s \in State, NEW v
  PROVE  /\ DidSet(s, v) \in State
         /\ DidSet(s, v).SR \cap Marks = s.SR \cap Marks
         /\ DidSet(s, v).isa = s.isa /\ DidSet(s, v).A = s.A /\ DidSet(s, v).X = s.X
         /\ DidSet(s, v).Y = s.Y /\ DidSet(s, v).SP = s.SP /\ DidSet(s, v).PC = s.PC
         /\ DidSet(s, v).page1 = s.page1
  <1> DEFINE S == (s.SR \ {"Z", "N"}) \cup (IF v = 0 THEN {"Z"} ELSE {})
                                      \cup (IF Negative(v) THEN {"N"} ELSE {})
  <1>1. S \in SUBSET Bits /\ S \cap Marks = s.SR \cap Marks
    <2>1. s.SR \subseteq Bits
      BY DEF State
    <2>2. {"Z"} \subseteq Bits /\ {"N"} \subseteq Bits /\ {"Z", "N"} \cap Marks = {}
      BY DEF Bits, Marks
    <2> QED
      BY <2>1, <2>2
  <1>2. DidSet(s, v) = [s EXCEPT !.SR = S]
    BY DEF DidSet
  <1> HIDE DEF S
  <1> QED
    BY <1>1, <1>2, StatusFacts

-----------------------------------------------------------------------------
(* The entries that lie deeper than those taken off.                        *)
LEMMA DropFacts ==
  ASSUME NEW k \in Seq(Entries)
  PROVE  /\ Len(k) >= 2 => SubSeq(k, 3, Len(k)) = Tail(Tail(k))
         /\ Len(k) >= 3 => SubSeq(k, 4, Len(k)) = Tail(Tail(Tail(k)))
  <1>1. ASSUME Len(k) >= 2 PROVE SubSeq(k, 3, Len(k)) = Tail(Tail(k))
    <2>1. Tail(k) = SubSeq(k, 2, Len(k))
      BY <1>1, TailIsSubSeq
    <2>2. 2 \in 1 .. Len(k) /\ Len(k) \in 2 .. Len(k)
      BY <1>1
    <2>3. Tail(SubSeq(k, 2, Len(k))) = SubSeq(k, 2 + 1, Len(k))
      BY <2>2, HeadTailOfSubSeq
    <2> QED
      BY <2>1, <2>3
  <1>2. ASSUME Len(k) >= 3 PROVE SubSeq(k, 4, Len(k)) = Tail(Tail(Tail(k)))
    <2>1. Tail(Tail(k)) = SubSeq(k, 3, Len(k))
      <3>1. Len(k) \in Nat
        OBVIOUS
      <3> QED
        BY <1>1, <1>2, <3>1
    <2>2. 3 \in 1 .. Len(k) /\ Len(k) \in 3 .. Len(k)
      BY <1>2
    <2>3. Tail(SubSeq(k, 3, Len(k))) = SubSeq(k, 4, Len(k))
      <3>1. Tail(SubSeq(k, 3, Len(k))) = SubSeq(k, 3 + 1, Len(k))
        BY <2>2, HeadTailOfSubSeq
      <3> QED
        BY <3>1
    <2> QED
      BY <2>1, <2>3, Zenon
  <1> QED
    BY <1>1, <1>2

(* Registers other than SP do not matter to the stack.                      *)
LEMMA MirrorsSame ==
  ASSUME NEW s, NEW t, NEW k, Mirrors(s, k), t.SP = s.SP, t.page1 = s.page1
  PROVE  Mirrors(t, k)
  BY DEF Mirrors

(* A push puts its entry on top, and as long as there is room overwrites    *)
(* none of those below, around the end of the page or not.                  *)
LEMMA MirrorsPush ==
  ASSUME NEW s \in State, NEW k \in Seq(Entries), Mirrors(s, k), Room(1, k),
         NEW e \in Entries, e.sp = s.SP, NEW cell \in Cell, cell = OnStack(e)
  PROVE  Mirrors(Push(s, cell), <<e>> \o k)
  <1> DEFINE t == Push(s, cell)
             l == <<e>> \o k
             n == Len(k)
  <1>1. /\ s.SP \in Byte /\ s.page1 \in [Byte -> Cell] /\ n \in Nat
        /\ t.SP = Down(s.SP) /\ t.page1 = [s.page1 EXCEPT ![s.SP] = cell]
    BY PushFacts DEF State
  <1>2. /\ Len(l) = n + 1 /\ l[1] = e
        /\ \A i \in 1 .. n : l[i + 1] = k[i]
    OBVIOUS
  <1>3. n + 1 <= Radix
    BY DEF Room
  <1>4. ASSUME NEW i \in 0 .. n
        PROVE  (t.SP + (i + 1)) % Radix = (s.SP + i) % Radix
    <2>1. i \in Nat /\ i < Radix
      BY <1>1, <1>3, RadixAssumption
    <2> QED
      BY <1>1, <2>1, WrapFacts
  <1>5. (s.SP + 0) % Radix = s.SP
    BY <1>1, WrapFacts, RadixAssumption
  <1>6. ASSUME NEW i \in 1 .. n PROVE k[i].sp # s.SP /\ k[i].sp \in Byte
    <2>1. k[i].sp = (s.SP + i) % Radix
      BY <1>6 DEF Mirrors
    <2>2. i \in Nat /\ i # 0 /\ i < Radix
      BY <1>1, <1>3, <1>6, RadixAssumption
    <2> QED
      BY <1>1, <2>1, <2>2, WrapFacts
  <1>7. ASSUME NEW j \in 1 .. n + 1
        PROVE  (t.SP + j) % Radix = l[j].sp /\ t.page1[l[j].sp] = OnStack(l[j])
    <2>1. CASE j = 1
      <3>1. (t.SP + (0 + 1)) % Radix = (s.SP + 0) % Radix
        BY <1>1, <1>4
      <3> QED
        BY <1>1, <1>2, <1>5, <2>1, <3>1
    <2>2. CASE j # 1
      <3>1. PICK i \in 1 .. n : j = i + 1
        BY <1>1, <2>2
      <3>2. (t.SP + j) % Radix = k[i].sp
        BY <1>1, <1>4, <3>1 DEF Mirrors
      <3>3. t.page1[k[i].sp] = s.page1[k[i].sp]
        BY <1>1, <1>6
      <3> QED
        BY <1>2, <3>1, <3>2, <3>3 DEF Mirrors
    <2> QED
      BY <2>1, <2>2
  <1> QED
    BY <1>2, <1>3, <1>7 DEF Mirrors

(* A pop takes off the entry that was put there last.                       *)
LEMMA MirrorsPop ==
  ASSUME NEW s \in State, NEW k \in Seq(Entries), Mirrors(s, k), k # << >>
  PROVE  /\ Mirrors(Pop(s), Tail(k)) /\ Tail(k) \in Seq(Entries)
         /\ Popped(s) = OnStack(k[1]) /\ Pop(s).SP = k[1].sp
         /\ Len(k) \in Nat /\ Len(k) >= 1 /\ Len(Tail(k)) = Len(k) - 1
         /\ \A i \in 1 .. Len(k) - 1 : Tail(k)[i] = k[i + 1]
  <1> DEFINE n == Len(k)
             t == Pop(s)
  <1>1. /\ n \in Nat /\ n >= 1 /\ Len(Tail(k)) = n - 1 /\ Tail(k) \in Seq(Entries)
        /\ \A i \in 1 .. n - 1 : Tail(k)[i] = k[i + 1]
    OBVIOUS
  <1>2. s.SP \in Byte /\ t.SP = Up(s.SP) /\ t.page1 = s.page1 /\ n <= Radix
    BY PopFacts DEF State, Mirrors
  <1>3. ASSUME NEW i \in 0 .. n - 1
        PROVE  (Up(s.SP) + i) % Radix = (s.SP + (i + 1)) % Radix
    <2>1. i \in Nat /\ i < Radix
      BY <1>1, <1>2, RadixAssumption
    <2> QED
      BY <1>2, <2>1, WrapFacts
  <1>4. Up(s.SP) = k[1].sp
    <2>1. (Up(s.SP) + 0) % Radix = (s.SP + (0 + 1)) % Radix
      BY <1>1, <1>3
    <2>2. (Up(s.SP) + 0) % Radix = Up(s.SP)
      BY <1>2, UpDownFacts, WrapFacts, RadixAssumption
    <2>3. (s.SP + 1) % Radix = k[1].sp
      BY <1>1 DEF Mirrors
    <2> QED
      BY <2>1, <2>2, <2>3
  <1>5. Popped(s) = OnStack(k[1])
    BY <1>1, <1>4 DEF Popped, Mirrors
  <1>6. ASSUME NEW i \in 1 .. n - 1
        PROVE  /\ (t.SP + i) % Radix = Tail(k)[i].sp
               /\ t.page1[Tail(k)[i].sp] = OnStack(Tail(k)[i])
    <2>1. i \in 0 .. n - 1 /\ i + 1 \in 1 .. n
      BY <1>1
    <2>2. (t.SP + i) % Radix = (s.SP + (i + 1)) % Radix
      BY <1>2, <1>3, <2>1
    <2>3. (s.SP + (i + 1)) % Radix = k[i + 1].sp /\ s.page1[k[i + 1].sp] = OnStack(k[i + 1])
      BY <2>1 DEF Mirrors
    <2> QED
      BY <1>1, <1>2, <2>2, <2>3
  <1>7. Mirrors(t, Tail(k))
    BY <1>1, <1>2, <1>6, RadixAssumption DEF Mirrors
  <1> QED
    BY <1>1, <1>2, <1>4, <1>5, <1>7

-----------------------------------------------------------------------------
(* Two entries, one on the other.                                           *)
LEMMA PairFacts ==
  ASSUME NEW e \in Entries, NEW h \in Entries
  PROVE  <<e>> \o <<h>> = <<e, h>> /\ <<e, h>> \in Seq(Entries)
  <1> DEFINE p == <<e>> \o <<h>>
             q == <<e, h>>
  <1>1. p \in Seq(Entries) /\ q \in Seq(Entries) /\ Len(p) = 2 /\ Len(q) = 2
    OBVIOUS
  <1>2. p[1] = e /\ p[2] = h /\ q[1] = e /\ q[2] = h
    OBVIOUS
  <1> HIDE DEF p, q
  <1>3. \A i \in 1 .. Len(p) : p[i] = q[i]
    BY <1>1, <1>2
  <1>4. p = q
    BY <1>1, <1>3, SeqEqual
  <1> QED
    BY <1>1, <1>4 DEF p, q

(* An entry on top of the others.                                           *)
LEMMA OnTop ==
  ASSUME NEW k \in Seq(Entries), NEW e \in Entries
  PROVE  /\ <<e>> \o k \in Seq(Entries)
         /\ Len(<<e>> \o k) = Len(k) + 1 /\ Len(k) \in Nat
         /\ (<<e>> \o k)[1] = e
         /\ \A i \in 1 .. Len(k) : (<<e>> \o k)[i + 1] = k[i]
  OBVIOUS

(* A sound stack stays so when an entry is pushed on what it has to lie on. *)
LEMMA SoundPush ==
  ASSUME NEW s, NEW k, Sound(s, k), Room(1, k),
         NEW e \in Entries, e.sp = s.SP, NEW cell \in Cell, cell = OnStack(e),
         e.kind \in {"sr", "brk", "php"} => e.cell \in [status : SUBSET (Bits \ Marks)],
         e.kind \in {"hi", "lo", "num"} => e.cell \in [byte : Byte],
         e.kind \in {"sr", "brk"} => Top({"lo"}, k),
         e.kind = "lo" => Top({"hi"}, k)
  PROVE  Sound(Push(s, cell), <<e>> \o k)
  <1> DEFINE l == <<e>> \o k
  <1>1. s \in State /\ k \in Seq(Entries) /\ Mirrors(s, k) /\ Nested(k) /\ s.SR \cap Marks = {}
    BY DEF Sound
  <1>2. Push(s, cell) \in State /\ Push(s, cell).SR = s.SR /\ Mirrors(Push(s, cell), l)
    BY <1>1, PushFacts, MirrorsPush
  <1>3. /\ l \in Seq(Entries) /\ Len(l) = Len(k) + 1 /\ Len(k) \in Nat /\ l[1] = e
        /\ \A i \in 1 .. Len(k) : l[i + 1] = k[i]
    BY <1>1, OnTop
  <1> HIDE DEF l
  <1>4. ASSUME NEW j \in 1 .. Len(l)
        PROVE  /\ l[j].kind \in {"sr", "brk", "php"} =>
                    l[j].cell \in [status : SUBSET (Bits \ Marks)]
               /\ l[j].kind \in {"hi", "lo", "num"} => l[j].cell \in [byte : Byte]
               /\ l[j].kind \in {"sr", "brk"} => j < Len(l) /\ l[j + 1].kind = "lo"
               /\ l[j].kind = "lo" => j < Len(l) /\ l[j + 1].kind = "hi"
    <2>1. CASE j = 1
      <3>1. \A kind : Top({kind}, k) => 1 < Len(l) /\ l[1 + 1].kind = kind
        <4> SUFFICES ASSUME NEW kind, Top({kind}, k) PROVE 1 < Len(l) /\ l[1 + 1].kind = kind
          OBVIOUS
        <4>1. k # << >> /\ k[1].kind = kind
          BY DEF Top
        <4>2. Len(k) >= 1
          BY <1>1, <4>1
        <4>3. l[1 + 1] = k[1] /\ 1 < Len(l)
          BY <1>3, <4>2
        <4> QED
          BY <4>1, <4>3
      <3>2. /\ Top({"lo"}, k) => 1 < Len(l) /\ l[1 + 1].kind = "lo"
            /\ Top({"hi"}, k) => 1 < Len(l) /\ l[1 + 1].kind = "hi"
        BY <3>1
      <3> QED
        BY <1>3, <2>1, <3>2
    <2>2. CASE j # 1
      <3>1. PICK i \in 1 .. Len(k) : j = i + 1
        <4>1. j - 1 \in 1 .. Len(k) /\ j = (j - 1) + 1
          BY <1>3, <2>2
        <4> QED
          BY <4>1
      <3>2. l[j] = k[i] /\ (i < Len(k) => l[j + 1] = k[i + 1] /\ j < Len(l))
        <4>1. i < Len(k) => i + 1 \in 1 .. Len(k) /\ j < Len(l)
          BY <1>3, <3>1
        <4> QED
          BY <1>3, <3>1, <4>1
      <3> QED
        BY <1>1, <3>1, <3>2 DEF Nested
    <2> QED
      BY <2>1, <2>2
  <1>5. Nested(l)
    BY <1>4 DEF Nested
  <1> QED
    BY <1>1, <1>2, <1>3, <1>5 DEF Sound, l

(* And when one is popped.                                                  *)
LEMMA SoundPop ==
  ASSUME NEW s, NEW k, Sound(s, k), k # << >>
  PROVE  /\ Sound(Pop(s), Tail(k))
         /\ Popped(s) = OnStack(k[1]) /\ Pop(s).SP = k[1].sp
         /\ Len(k) \in Nat /\ Len(k) >= 1 /\ Len(Tail(k)) = Len(k) - 1
         /\ \A i \in 1 .. Len(k) - 1 : Tail(k)[i] = k[i + 1]
  <1> DEFINE l == Tail(k)
  <1>1. s \in State /\ k \in Seq(Entries) /\ Mirrors(s, k) /\ Nested(k) /\ s.SR \cap Marks = {}
    BY DEF Sound
  <1>2. /\ Mirrors(Pop(s), l) /\ l \in Seq(Entries)
        /\ Popped(s) = OnStack(k[1]) /\ Pop(s).SP = k[1].sp
        /\ Len(k) \in Nat /\ Len(k) >= 1 /\ Len(l) = Len(k) - 1
        /\ \A i \in 1 .. Len(k) - 1 : l[i] = k[i + 1]
    BY <1>1, MirrorsPop
  <1> HIDE DEF l
  <1>3. Nested(l)
    <2> SUFFICES ASSUME NEW i \in 1 .. Len(l)
                 PROVE  /\ l[i].kind \in {"sr", "brk", "php"} =>
                             l[i].cell \in [status : SUBSET (Bits \ Marks)]
                        /\ l[i].kind \in {"hi", "lo", "num"} => l[i].cell \in [byte : Byte]
                        /\ l[i].kind \in {"sr", "brk"} => i < Len(l) /\ l[i + 1].kind = "lo"
                        /\ l[i].kind = "lo" => i < Len(l) /\ l[i + 1].kind = "hi"
      BY DEF Nested
    <2>1. i + 1 \in 1 .. Len(k) /\ l[i] = k[i + 1]
      BY <1>2
    <2>2. i + 1 < Len(k) => i < Len(l) /\ l[i + 1] = k[(i + 1) + 1]
      BY <1>2
    <2> QED
      BY <1>1, <2>1, <2>2 DEF Nested
  <1> QED
    BY <1>1, <1>2, <1>3, PopFacts DEF Sound, l

(* What does not touch the stack leaves it sound.                           *)
LEMMA SoundSame ==
  ASSUME NEW s, NEW k, Sound(s, k), NEW t \in State, t.SP = s.SP, t.page1 = s.page1,
         t.SR \cap Marks = {}
  PROVE  Sound(t, k)
  BY MirrorsSame DEF Sound

(* What is on the stack after each instruction.                             *)
LEMMA KeptFacts ==
  ASSUME NEW s, NEW k
  PROVE  /\ \A op \in Interrupts : Kept(op, s, k) = Interrupted("sr", s, s.PC) \o k
         /\ Kept("BRK", s, k) = Interrupted("brk", s, Inc(Inc(s.PC))) \o k
         /\ Kept("JSR", s, k) = SavedPC(s, Inc(Inc(Inc(s.PC)))) \o k
         /\ \A op \in Pushes :
              Kept(op, s, k) = <<Entry("num", Num(s[Register(op)]), s.SP)>> \o k
         /\ Kept("PHP", s, k) = <<Entry("php", Status(s.SR), s.SP)>> \o k
         /\ Kept("RTI", s, k) = SubSeq(k, 4, Len(k))
         /\ Kept("RTS", s, k) = SubSeq(k, 3, Len(k))
         /\ \A op \in Pulls \cup {"PLP"} : Kept(op, s, k) = Tail(k)
         /\ \A op \in {"JMP"} \cup Indirect \cup Branches \cup OneCall : Kept(op, s, k) = k
  BY DEF Kept, Interrupts, Pushes, Pulls, Indirect, Branches, OneCall

-----------------------------------------------------------------------------
(* The entries for a number and for a status, and how they look in memory.  *)
LEMMA NumEntry ==
  ASSUME NEW kind \in {"hi", "lo", "num"}, NEW n \in Byte, NEW sp \in Byte
  PROVE  /\ Entry(kind, Num(n), sp) \in Entries
         /\ Entry(kind, Num(n), sp).kind = kind /\ Entry(kind, Num(n), sp).sp = sp
         /\ Entry(kind, Num(n), sp).cell = Num(n) /\ Num(n) \in [byte : Byte]
         /\ OnStack(Entry(kind, Num(n), sp)) = Num(n)
  BY DEF Entry, Entries, Kinds, Cell, Num, OnStack

(* A status lies in memory with the marks of the instruction that put it    *)
(* there, of which the processor's own status has none.                     *)
LEMMA StatusEntry ==
  ASSUME NEW kind \in {"sr", "brk", "php"}, NEW S \in SUBSET Bits, S \cap Marks = {},
         NEW sp \in Byte
  PROVE  /\ Entry(kind, Status(S), sp) \in Entries
         /\ Entry(kind, Status(S), sp).kind = kind /\ Entry(kind, Status(S), sp).sp = sp
         /\ Entry(kind, Status(S), sp).cell = Status(S)
         /\ Status(S) \in [status : SUBSET (Bits \ Marks)]
         /\ kind = "sr" => OnStack(Entry(kind, Status(S), sp)) = Status(S)
         /\ kind = "brk" => OnStack(Entry(kind, Status(S), sp)) = Status(S \cup {"B"})
         /\ kind = "php" => OnStack(Entry(kind, Status(S), sp)) = Status(S \cup Marks)
         /\ Status(S \cup {"B"}) \in Cell /\ Status(S \cup Marks) \in Cell
  BY DEF Entry, Entries, Kinds, Cell, Status, OnStack, Bits, Marks

(* A program counter on the stack, its low byte on top.                     *)
LEMMA SoundPushPC ==
  ASSUME NEW s, NEW k, Sound(s, k), Room(2, k)
  PROVE  LET l == SavedPC(s, s.PC) \o k
             t == PushPC(s)
         IN  /\ Sound(t, l) /\ Top({"lo"}, l) /\ Len(l) = Len(k) + 2 /\ Len(k) \in Nat
             /\ t \in State
             /\ t.isa = s.isa /\ t.A = s.A /\ t.X = s.X /\ t.Y = s.Y
             /\ t.PC = s.PC /\ t.SR = s.SR /\ t.SP = Down(Down(s.SP))
  <1> DEFINE h == Entry("hi", Num(Hi(s.PC)), s.SP)
             e == Entry("lo", Num(Lo(s.PC)), Down(s.SP))
             u == Push(s, Num(Hi(s.PC)))
  <1>1. s \in State /\ k \in Seq(Entries) /\ s.SP \in Byte /\ s.PC \in Addr
    BY DEF Sound, State
  <1>2. Hi(s.PC) \in Byte /\ Lo(s.PC) \in Byte /\ Down(s.SP) \in Byte
    BY <1>1, AddrFacts, UpDownFacts
  <1>3. /\ h \in Entries /\ h.kind = "hi" /\ h.sp = s.SP /\ h.cell \in [byte : Byte]
        /\ OnStack(h) = Num(Hi(s.PC)) /\ Num(Hi(s.PC)) \in Cell
    BY <1>1, <1>2, NumEntry, CellFacts
  <1>4. /\ e \in Entries /\ e.kind = "lo" /\ e.sp = Down(s.SP) /\ e.cell \in [byte : Byte]
        /\ OnStack(e) = Num(Lo(s.PC)) /\ Num(Lo(s.PC)) \in Cell
    BY <1>1, <1>2, NumEntry, CellFacts
  <1>5. SavedPC(s, s.PC) = <<e, h>>
    BY DEF SavedPC
  <1> HIDE DEF h, e
  <1>6. Len(k) \in Nat /\ Len(k) + 2 <= Radix
    BY <1>1 DEF Room
  <1>7. Sound(u, <<h>> \o k)
    BY <1>3, <1>6, SoundPush, RadixAssumption DEF Room
  <1>8. /\ u \in State /\ u.isa = s.isa /\ u.A = s.A /\ u.X = s.X /\ u.Y = s.Y
        /\ u.PC = s.PC /\ u.SR = s.SR /\ u.SP = Down(s.SP)
    BY <1>1, <1>3, PushFacts
  <1>9. /\ Len(<<h>> \o k) = Len(k) + 1 /\ (<<h>> \o k)[1] = h
        /\ <<h>> \o k \in Seq(Entries)
    BY <1>1, <1>3, OnTop
  <1>10. Room(1, <<h>> \o k) /\ Top({"hi"}, <<h>> \o k)
    <2>1. <<h>> \o k # << >>
      BY <1>6, <1>9
    <2> QED
      BY <1>3, <1>6, <1>9, <2>1, RadixAssumption DEF Room, Top
  <1>11. Sound(Push(u, Num(Lo(s.PC))), <<e>> \o (<<h>> \o k))
    BY <1>4, <1>7, <1>8, <1>10, SoundPush
  <1>12. /\ <<e>> \o (<<h>> \o k) = <<e, h>> \o k
         /\ Len(<<e, h>> \o k) = Len(k) + 2 /\ (<<e, h>> \o k)[1] = e
    <2>1. <<e>> \in Seq(Entries) /\ <<h>> \in Seq(Entries)
      BY <1>3, <1>4
    <2>2. <<e>> \o <<h>> = <<e, h>>
      BY <1>3, <1>4, PairFacts
    <2>3. (<<e>> \o <<h>>) \o k = <<e>> \o (<<h>> \o k)
      BY <1>1, <2>1, ConcatAssociative
    <2>4. Len(<<e>> \o (<<h>> \o k)) = Len(k) + 2 /\ (<<e>> \o (<<h>> \o k))[1] = e
      <3>1. /\ Len(<<e>> \o (<<h>> \o k)) = Len(<<h>> \o k) + 1
            /\ (<<e>> \o (<<h>> \o k))[1] = e
        BY <1>4, <1>9, OnTop
      <3>2. Len(<<h>> \o k) + 1 = Len(k) + 2
        BY <1>6, <1>9
      <3> QED
        BY <3>1, <3>2, Zenon
    <2> QED
      BY <2>2, <2>3, <2>4, Zenon
  <1>13. PushPC(s) = Push(u, Num(Lo(s.PC)))
    BY DEF PushPC
  <1>14. Top({"lo"}, <<e, h>> \o k)
    <2>1. <<e, h>> \o k # << >>
      BY <1>6, <1>12
    <2> QED
      BY <1>4, <1>12, <2>1 DEF Top
  <1> HIDE DEF u
  <1>15. /\ Push(u, Num(Lo(s.PC))) \in State
         /\ Push(u, Num(Lo(s.PC))).isa = u.isa /\ Push(u, Num(Lo(s.PC))).A = u.A
         /\ Push(u, Num(Lo(s.PC))).X = u.X /\ Push(u, Num(Lo(s.PC))).Y = u.Y
         /\ Push(u, Num(Lo(s.PC))).PC = u.PC /\ Push(u, Num(Lo(s.PC))).SR = u.SR
         /\ Push(u, Num(Lo(s.PC))).SP = Down(u.SP)
    BY <1>4, <1>8, PushFacts
  <1>16. /\ Sound(PushPC(s), SavedPC(s, s.PC) \o k) /\ Top({"lo"}, SavedPC(s, s.PC) \o k)
         /\ Len(SavedPC(s, s.PC) \o k) = Len(k) + 2
    BY <1>5, <1>11, <1>12, <1>13, <1>14, Zenon
  <1>17. /\ PushPC(s) \in State
         /\ PushPC(s).isa = s.isa /\ PushPC(s).A = s.A /\ PushPC(s).X = s.X
         /\ PushPC(s).Y = s.Y /\ PushPC(s).PC = s.PC /\ PushPC(s).SR = s.SR
         /\ PushPC(s).SP = Down(Down(s.SP))
    BY <1>8, <1>13, <1>15, Zenon
  <1> QED
    BY <1>6, <1>16, <1>17, Zenon

(* A status on top of a program counter, as interrupts and BRK leave them.  *)
LEMMA SoundInterrupted ==
  ASSUME NEW s, NEW k, Sound(s, k), Room(3, k), NEW kind \in {"sr", "brk"},
         NEW cell, cell = IF kind = "sr" THEN Status(s.SR) ELSE Status(s.SR \cup {"B"})
  PROVE  LET t == Push(PushPC(s), cell)
         IN  /\ Sound(t, Interrupted(kind, s, s.PC) \o k) /\ t \in State
             /\ t.isa = s.isa /\ t.A = s.A /\ t.X = s.X /\ t.Y = s.Y
             /\ t.PC = s.PC /\ t.SR = s.SR
  <1> DEFINE e == Entry(kind, Status(s.SR), Down(Down(s.SP)))
             l == SavedPC(s, s.PC) \o k
             u == PushPC(s)
  <1>1. s \in State /\ k \in Seq(Entries) /\ s.SP \in Byte /\ s.SR \in SUBSET Bits
        /\ s.SR \cap Marks = {}
    BY DEF Sound, State
  <1>2. Len(k) \in Nat /\ Len(k) + 3 <= Radix /\ Room(2, k)
    BY <1>1, RadixAssumption DEF Room
  <1>3. /\ Sound(u, l) /\ Top({"lo"}, l) /\ Len(l) = Len(k) + 2 /\ u \in State
        /\ u.isa = s.isa /\ u.A = s.A /\ u.X = s.X /\ u.Y = s.Y
        /\ u.PC = s.PC /\ u.SR = s.SR /\ u.SP = Down(Down(s.SP))
    BY <1>2, SoundPushPC
  <1>4. Down(Down(s.SP)) \in Byte
    BY <1>1, UpDownFacts
  <1>5. /\ e \in Entries /\ e.kind = kind /\ e.sp = Down(Down(s.SP))
        /\ e.cell \in [status : SUBSET (Bits \ Marks)] /\ OnStack(e) = cell /\ cell \in Cell
    <2>1. /\ e \in Entries /\ e.kind = kind /\ e.sp = Down(Down(s.SP))
          /\ e.cell \in [status : SUBSET (Bits \ Marks)]
          /\ kind = "sr" => OnStack(e) = Status(s.SR)
          /\ kind = "brk" => OnStack(e) = Status(s.SR \cup {"B"})
      <3> DEFINE S == s.SR
                 sp == Down(Down(s.SP))
      <3>1. kind \in {"sr", "brk", "php"} /\ S \in SUBSET Bits /\ S \cap Marks = {} /\ sp \in Byte
        BY <1>1, <1>4
      <3>2. e = Entry(kind, Status(S), sp)
        OBVIOUS
      <3> HIDE DEF S, sp, e
      <3>3. /\ Entry(kind, Status(S), sp) \in Entries
            /\ Entry(kind, Status(S), sp).kind = kind /\ Entry(kind, Status(S), sp).sp = sp
            /\ Entry(kind, Status(S), sp).cell = Status(S)
            /\ Status(S) \in [status : SUBSET (Bits \ Marks)]
            /\ kind = "sr" => OnStack(Entry(kind, Status(S), sp)) = Status(S)
            /\ kind = "brk" => OnStack(Entry(kind, Status(S), sp)) = Status(S \cup {"B"})
        BY <3>1 DEF Entry, Entries, Kinds, Cell, Status, OnStack, Bits, Marks
      <3> QED
        <4>1. /\ e \in Entries /\ e.kind = kind /\ e.sp = sp
              /\ e.cell \in [status : SUBSET (Bits \ Marks)]
              /\ kind = "sr" => OnStack(e) = Status(S)
              /\ kind = "brk" => OnStack(e) = Status(S \cup {"B"})
          BY <3>2, <3>3, Zenon
        <4> QED
          BY <4>1 DEF S, sp
    <2>2. Status(s.SR) \in Cell /\ Status(s.SR \cup {"B"}) \in Cell
      <3>1. s.SR \cup {"B"} \in SUBSET Bits
        BY <1>1 DEF Bits
      <3> QED
        BY <1>1, <3>1, CellFacts
    <2> HIDE DEF e
    <2>3. CASE kind = "sr"
      BY <2>1, <2>2, <2>3
    <2>4. CASE kind = "brk"
      BY <2>1, <2>2, <2>4
    <2> QED
      BY <2>3, <2>4
  <1>6. Interrupted(kind, s, s.PC) \o k = <<e>> \o l
    <2>1. Interrupted(kind, s, s.PC) = <<e>> \o SavedPC(s, s.PC)
      BY DEF Interrupted
    <2>2. <<e>> \in Seq(Entries) /\ SavedPC(s, s.PC) \in Seq(Entries)
      <3>1. Hi(s.PC) \in Byte /\ Lo(s.PC) \in Byte /\ Down(s.SP) \in Byte
        BY <1>1, AddrFacts, UpDownFacts DEF State
      <3>2. /\ Entry("lo", Num(Lo(s.PC)), Down(s.SP)) \in Entries
            /\ Entry("hi", Num(Hi(s.PC)), s.SP) \in Entries
        BY <1>1, <3>1, NumEntry
      <3> QED
        BY <1>5, <3>2 DEF SavedPC
    <2> QED
      BY <1>1, <2>1, <2>2, ConcatAssociative
  <1> HIDE DEF e, l, u
  <1>7. Room(1, l)
    BY <1>2, <1>3 DEF Room
  <1>8. Sound(Push(u, cell), <<e>> \o l)
    BY <1>3, <1>5, <1>7, SoundPush
  <1>9. /\ Push(u, cell) \in State
        /\ Push(u, cell).isa = u.isa /\ Push(u, cell).A = u.A /\ Push(u, cell).X = u.X
        /\ Push(u, cell).Y = u.Y /\ Push(u, cell).PC = u.PC /\ Push(u, cell).SR = u.SR
    BY <1>3, <1>5, PushFacts
  <1>10. Push(PushPC(s), cell) = Push(u, cell)
    BY DEF u
  <1> QED
    BY <1>3, <1>6, <1>8, <1>9, <1>10, Zenon

(* Taking the entry on top off: a register, as PLA, PLX and PLY do.         *)
LEMMA TakeNum ==
  ASSUME NEW s, NEW k, Sound(s, k), Top({"num"}, k)
  PROVE  /\ Sound(Pop(s), Tail(k)) /\ Pop(s).SP = k[1].sp
         /\ Popped(s) = k[1].cell /\ Popped(s) \in [byte : Byte] /\ Popped(s).byte \in Byte
  <1>1. k # << >> /\ k[1].kind = "num"
    BY DEF Top
  <1>2. /\ Sound(Pop(s), Tail(k)) /\ Pop(s).SP = k[1].sp /\ Popped(s) = OnStack(k[1])
        /\ Len(k) \in Nat /\ Len(k) >= 1
    BY <1>1, SoundPop
  <1>3. k[1].cell \in [byte : Byte]
    BY <1>1, <1>2 DEF Sound, Nested
  <1>4. OnStack(k[1]) = k[1].cell
    BY <1>1 DEF OnStack
  <1> QED
    BY <1>2, <1>3, <1>4

(* A status: what is left of it without the marks is what was put there.    *)
LEMMA TakeStatus ==
  ASSUME NEW s, NEW k, Sound(s, k), Top({"sr", "brk", "php"}, k)
  PROVE  /\ Sound(Pop(s), Tail(k)) /\ Pop(s).SP = k[1].sp
         /\ Popped(s) \in [status : SUBSET Bits] /\ Popped(s).status \in SUBSET Bits
         /\ Unmarked(Popped(s).status) = k[1].cell.status
         /\ k[1].cell.status \in SUBSET Bits /\ k[1].cell.status \cap Marks = {}
  <1>1. k # << >> /\ k[1].kind \in {"sr", "brk", "php"}
    BY DEF Top
  <1>2. /\ Sound(Pop(s), Tail(k)) /\ Pop(s).SP = k[1].sp /\ Popped(s) = OnStack(k[1])
        /\ Len(k) \in Nat /\ Len(k) >= 1
    BY <1>1, SoundPop
  <1>3. k[1].cell \in [status : SUBSET (Bits \ Marks)]
    BY <1>1, <1>2 DEF Sound, Nested
  <1> DEFINE S == k[1].cell.status
  <1>4. S \in SUBSET Bits /\ S \cap Marks = {} /\ k[1].cell = Status(S)
    BY <1>3 DEF Status
  <1>5. \/ OnStack(k[1]) = Status(S) \/ OnStack(k[1]) = Status(S \cup {"B"})
        \/ OnStack(k[1]) = Status(S \cup {"B", "IGN"})
    BY <1>4 DEF OnStack
  <1> HIDE DEF S
  <1>6. PICK T \in SUBSET {"B", "IGN"} : Popped(s) = Status(S \cup T)
    <2>1. S = S \cup {}
      OBVIOUS
    <2>2. {} \in SUBSET {"B", "IGN"} /\ {"B"} \in SUBSET {"B", "IGN"}
      OBVIOUS
    <2>3. CASE OnStack(k[1]) = Status(S)
      BY <1>2, <2>1, <2>2, <2>3, Zenon
    <2>4. CASE OnStack(k[1]) = Status(S \cup {"B"})
      BY <1>2, <2>2, <2>4, Zenon
    <2>5. CASE OnStack(k[1]) = Status(S \cup {"B", "IGN"})
      BY <1>2, <2>5
    <2> QED
      BY <1>5, <2>3, <2>4, <2>5
  <1>7. S \cup T \in SUBSET Bits /\ Unmarked(S \cup T) = S
    BY <1>4 DEF Bits, Marks, Unmarked
  <1>8. Popped(s).status = S \cup T /\ Popped(s) \in [status : SUBSET Bits]
    BY <1>6, <1>7 DEF Status
  <1> QED
    BY <1>2, <1>4, <1>7, <1>8 DEF S

(* A program counter: RTS goes back to the address that was put there.      *)
LEMMA TakePC ==
  ASSUME NEW s, NEW k, Sound(s, k), Top({"lo"}, k)
  PROVE  LET t == Pop(s)
             u == Pop(t)
         IN  /\ Sound(u, Tail(Tail(k))) /\ Len(k) \in Nat /\ Len(k) >= 2
             /\ Popped(s) = k[1].cell /\ Popped(s).byte \in Byte
             /\ Popped(t) = k[2].cell /\ Popped(t).byte \in Byte
             /\ u.SP = k[2].sp
  <1> DEFINE t == Pop(s)
             l == Tail(k)
  <1>1. k # << >> /\ k[1].kind = "lo"
    BY DEF Top
  <1>2. /\ Sound(t, l) /\ Popped(s) = OnStack(k[1])
        /\ Len(k) \in Nat /\ Len(k) >= 1 /\ Len(l) = Len(k) - 1
        /\ \A i \in 1 .. Len(k) - 1 : l[i] = k[i + 1]
    BY <1>1, SoundPop
  <1>3. k[1].cell \in [byte : Byte] /\ 1 < Len(k) /\ k[1 + 1].kind = "hi"
    BY <1>1, <1>2 DEF Sound, Nested
  <1>4. k[2].cell \in [byte : Byte] /\ k[2].kind = "hi"
    BY <1>2, <1>3 DEF Sound, Nested
  <1>5. l[1] = k[2] /\ l # << >>
    <2>1. 1 \in 1 .. Len(k) - 1 /\ Len(l) # 0
      BY <1>2, <1>3
    <2>2. l[1] = k[1 + 1]
      BY <1>2, <2>1, Zenon
    <2> QED
      BY <2>1, <2>2
  <1> HIDE DEF t, l
  <1>6. Sound(Pop(t), Tail(l)) /\ Popped(t) = OnStack(l[1]) /\ Pop(t).SP = l[1].sp
    BY <1>2, <1>5, SoundPop
  <1>7. OnStack(k[1]) = k[1].cell /\ OnStack(k[2]) = k[2].cell
    BY <1>1, <1>4 DEF OnStack
  <1>8. k[1].cell.byte \in Byte /\ k[2].cell.byte \in Byte
    BY <1>3, <1>4
  <1>9. Len(k) >= 2
    BY <1>2, <1>3
  <1> QED
    BY <1>2, <1>5, <1>6, <1>7, <1>8, <1>9, Zenon DEF t, l

-----------------------------------------------------------------------------
(* Each static function leaves a sound stack, with on it what Kept says.    *)
LEMMA FetchedSound ==
  ASSUME NEW s, NEW k, Sound(s, k)
  PROVE  Sound(Fetched(s), k)
  BY FetchedFacts, SoundSame DEF Sound

(* An interrupt, whether or not it goes on through its vector.              *)
LEMMA InterruptEffect ==
  ASSUME NEW s, NEW k, Sound(s, k), Room(3, k)
  PROVE  LET t == MaskIrq(Push(PushPC(s), Status(s.SR)))
         IN  /\ t \in State /\ Sound(t, Interrupted("sr", s, s.PC) \o k)
             /\ \A p \in Addr : Sound(Jump(t, p), Interrupted("sr", s, s.PC) \o k)
  <1> DEFINE r == Push(PushPC(s), Status(s.SR))
             l == Interrupted("sr", s, s.PC) \o k
             t == MaskIrq(r)
  <1>1. Sound(r, l) /\ r \in State
    BY SoundInterrupted
  <1> HIDE DEF r, l
  <1>2. Sound(t, l) /\ t \in State
    <2>1. r.SR \cap Marks = {}
      BY <1>1 DEF Sound
    <2> QED
      BY <1>1, <2>1, MaskIrqFacts, SoundSame
  <1> HIDE DEF t
  <1>3. ASSUME NEW p \in Addr PROVE Sound(Jump(t, p), l)
    <2>1. t.SR \cap Marks = {}
      BY <1>2 DEF Sound
    <2> QED
      BY <1>2, <2>1, JumpFacts, SoundSame
  <1> QED
    BY <1>2, <1>3 DEF r, l, t

(* BRK, called in state s, after the fetch of its opcode.                   *)
LEMMA BRKEffect ==
  ASSUME NEW s, NEW k, Sound(s, k), Room(3, k)
  PROVE  LET t == Push(PushPC(Fetched(s)), Status(s.SR \cup {"B"}))
         IN  /\ t \in State /\ t.SR = s.SR /\ MaskIrq(t) \in State
             /\ \A p \in Addr : Sound(Jump(MaskIrq(t), p), Interrupted("brk", s, Inc(s.PC)) \o k)
  <1> DEFINE u == Fetched(s)
             cell == Status(s.SR \cup {"B"})
             t == Push(PushPC(u), cell)
             l == Interrupted("brk", u, u.PC) \o k
             m == MaskIrq(t)
  <1>1. s \in State /\ Sound(u, k) /\ u.SR = s.SR /\ u.SP = s.SP /\ u.PC = Inc(s.PC)
    BY FetchedSound, FetchedFacts DEF Sound
  <1>2. l = Interrupted("brk", s, Inc(s.PC)) \o k
    BY <1>1 DEF Interrupted, SavedPC
  <1>3. cell = IF "brk" = "sr" THEN Status(u.SR) ELSE Status(u.SR \cup {"B"})
    BY <1>1
  <1>4. "brk" \in {"sr", "brk"}
    OBVIOUS
  <1> HIDE DEF u, cell
  <1>5. Sound(t, l) /\ t \in State /\ t.SR = u.SR
    BY <1>1, <1>3, <1>4, SoundInterrupted
  <1> HIDE DEF t, l
  <1>6. Sound(m, l) /\ m \in State
    <2>1. t.SR \cap Marks = {}
      BY <1>5 DEF Sound
    <2> QED
      BY <1>5, <2>1, MaskIrqFacts, SoundSame
  <1> HIDE DEF m
  <1>7. ASSUME NEW p \in Addr PROVE Sound(Jump(m, p), l)
    <2>1. m.SR \cap Marks = {}
      BY <1>6 DEF Sound
    <2> QED
      BY <1>6, <2>1, JumpFacts, SoundSame
  <1> QED
    BY <1>1, <1>2, <1>5, <1>6, <1>7 DEF t, m, u, cell

(* JSR, which leaves the address of the instruction after it.               *)
LEMMA JSREffect ==
  ASSUME NEW s, NEW k, Sound(s, k), Room(2, k)
  PROVE  /\ PushPC(s) \in State
         /\ \A p \in Addr : Sound(Jump(PushPC(s), p), SavedPC(s, s.PC) \o k)
  <1> DEFINE t == PushPC(s)
             l == SavedPC(s, s.PC) \o k
  <1>1. t \in State /\ Sound(t, l)
    BY SoundPushPC
  <1> HIDE DEF t, l
  <1>2. ASSUME NEW p \in Addr PROVE Sound(Jump(t, p), l)
    <2>1. t.SR \cap Marks = {}
      BY <1>1 DEF Sound
    <2> QED
      BY <1>1, <2>1, JumpFacts, SoundSame
  <1> QED
    BY <1>1, <1>2 DEF t, l

(* RTI restores the status and the program counter of what it returns to.   *)
LEMMA RTIEffect ==
  ASSUME NEW s, NEW k, Sound(s, k), Top({"sr", "brk"}, k)
  PROVE  LET t == Pop(s)
             u == Pop(t)
             r == static_RTI(s)
         IN  /\ Popped(s) \in [status : SUBSET Bits] /\ Popped(s).status \in SUBSET Bits
             /\ Unmarked(Popped(s).status) \in SUBSET Bits
             /\ Popped(t).byte \in Byte /\ Popped(u).byte \in Byte
             /\ Sound(r, SubSeq(k, 4, Len(k)))
             /\ r.SR = k[1].cell.status /\ r.PC = <<k[3].cell.byte, k[2].cell.byte>>
             /\ r.SP = k[3].sp
  <1> DEFINE t == Pop(s)
             u == Pop(t)
             v == Pop(u)
             l == Tail(k)
             S == Unmarked(Popped(s).status)
             p == <<Popped(u).byte, Popped(t).byte>>
  <1>1. k # << >> /\ k[1].kind \in {"sr", "brk"} /\ Top({"sr", "brk", "php"}, k)
    BY DEF Top
  <1>2. /\ Sound(t, l) /\ Popped(s) \in [status : SUBSET Bits] /\ Popped(s).status \in SUBSET Bits
        /\ S = k[1].cell.status /\ S \in SUBSET Bits /\ S \cap Marks = {}
    <2>1. /\ Sound(t, l) /\ Popped(s) \in [status : SUBSET Bits]
          /\ Popped(s).status \in SUBSET Bits /\ Unmarked(Popped(s).status) = k[1].cell.status
      BY <1>1, TakeStatus
    <2>2. k[1].cell.status \in SUBSET Bits
      BY <1>1, TakeStatus
    <2>3. k[1].cell.status \cap Marks = {}
      BY <1>1, TakeStatus
    <2> QED
      BY <2>1, <2>2, <2>3
  <1>3. /\ Len(k) \in Nat /\ Len(k) >= 1 /\ Len(l) = Len(k) - 1 /\ k \in Seq(Entries)
        /\ \A i \in 1 .. Len(k) - 1 : l[i] = k[i + 1]
    BY <1>1, SoundPop DEF Sound
  <1>4. 1 < Len(k) /\ k[1 + 1].kind = "lo"
    BY <1>1, <1>3 DEF Sound, Nested
  <1>5. l[1] = k[2] /\ Top({"lo"}, l)
    <2>1. 1 \in 1 .. Len(k) - 1 /\ Len(l) # 0
      BY <1>3, <1>4
    <2>2. l[1] = k[1 + 1]
      BY <1>3, <2>1, Zenon
    <2>3. l # << >>
      BY <2>1
    <2> QED
      BY <1>4, <2>2, <2>3 DEF Top
  <1>6. Tail(Tail(l)) = SubSeq(k, 4, Len(k)) /\ (Len(l) >= 2 => l[2] = k[3])
    <2>1. Len(l) >= 2
      BY <1>2, <1>5, TakePC, Zenon
    <2>2. Tail(Tail(l)) = SubSeq(k, 4, Len(k))
      <3>1. Len(k) >= 3
        BY <1>3, <2>1
      <3> QED
        BY <1>3, <3>1, DropFacts
    <2>3. 2 \in 1 .. Len(k) - 1
      BY <1>3, <2>1
    <2>4. l[2] = k[2 + 1]
      BY <1>3, <2>3, Zenon
    <2> QED
      BY <2>2, <2>4
  <1> HIDE DEF l, t, S
  <1>7. /\ Sound(v, Tail(Tail(l))) /\ Len(l) >= 2 /\ v.SP = l[2].sp
        /\ Popped(t) = l[1].cell /\ Popped(t).byte \in Byte
        /\ Popped(u) = l[2].cell /\ Popped(u).byte \in Byte
    BY <1>2, <1>5, TakePC
  <1> HIDE DEF u, v
  <1>8. p \in Addr /\ v \in State
    BY <1>7 DEF Addr, Sound
  <1>9. static_RTI(s) = [v EXCEPT !.SR = S, !.PC = p]
    BY DEF static_RTI, v, u, t, S
  <1> HIDE DEF p
  <1>10. LET r == [v EXCEPT !.SR = S, !.PC = p]
         IN  r \in State /\ r.SR = S /\ r.PC = p /\ r.SP = v.SP /\ r.page1 = v.page1
    BY <1>2, <1>8 DEF State
  <1>11. Sound([v EXCEPT !.SR = S, !.PC = p], Tail(Tail(l)))
    BY <1>2, <1>7, <1>10, SoundSame
  <1>12. p = <<k[3].cell.byte, k[2].cell.byte>>
    BY <1>5, <1>6, <1>7 DEF p
  <1>13. /\ Sound(static_RTI(s), SubSeq(k, 4, Len(k)))
         /\ static_RTI(s).SR = k[1].cell.status
         /\ static_RTI(s).PC = <<k[3].cell.byte, k[2].cell.byte>>
         /\ static_RTI(s).SP = k[3].sp
    BY <1>2, <1>6, <1>7, <1>9, <1>10, <1>11, <1>12, Zenon
  <1>14. Unmarked(Popped(s).status) \in SUBSET Bits
    BY <1>2 DEF S
  <1> QED
    BY <1>2, <1>7, <1>13, <1>14, Zenon DEF u, t

(* RTS goes back to the address that JSR left.                              *)
LEMMA RTSEffect ==
  ASSUME NEW s, NEW k, Sound(s, k), Top({"lo"}, k)
  PROVE  LET t == Pop(s)
             r == static_RTS(s)
         IN  /\ Popped(s).byte \in Byte /\ Popped(t).byte \in Byte
             /\ Sound(r, SubSeq(k, 3, Len(k)))
             /\ r.PC = <<k[2].cell.byte, k[1].cell.byte>> /\ r.SP = k[2].sp
  <1> DEFINE t == Pop(s)
             u == Pop(t)
             p == <<Popped(t).byte, Popped(s).byte>>
  <1>1. /\ Sound(u, Tail(Tail(k))) /\ Len(k) \in Nat /\ Len(k) >= 2 /\ u.SP = k[2].sp
        /\ Popped(s) = k[1].cell /\ Popped(s).byte \in Byte
        /\ Popped(t) = k[2].cell /\ Popped(t).byte \in Byte
    BY TakePC
  <1>2. SubSeq(k, 3, Len(k)) = Tail(Tail(k))
    BY <1>1, DropFacts DEF Sound
  <1>3. p \in Addr /\ u \in State /\ u.SR \cap Marks = {}
    BY <1>1 DEF Addr, Sound
  <1>4. static_RTS(s) = Jump(u, p)
    BY DEF static_RTS
  <1>5. p = <<k[2].cell.byte, k[1].cell.byte>>
    BY <1>1
  <1> HIDE DEF t, u, p
  <1>6. /\ Sound(Jump(u, p), Tail(Tail(k))) /\ Jump(u, p).PC = p /\ Jump(u, p).SP = u.SP
    BY <1>1, <1>3, JumpFacts, SoundSame
  <1>7. /\ Sound(static_RTS(s), SubSeq(k, 3, Len(k)))
        /\ static_RTS(s).PC = <<k[2].cell.byte, k[1].cell.byte>> /\ static_RTS(s).SP = k[2].sp
    BY <1>1, <1>2, <1>4, <1>5, <1>6, Zenon
  <1> QED
    BY <1>1, <1>7, Zenon DEF t

(* PHA, PHX and PHY.                                                        *)
LEMMA PHEffect ==
  ASSUME NEW s, NEW k, Sound(s, k), Room(1, k), NEW op
  PROVE  LET n == s[Register(op)]
         IN  /\ n \in Byte /\ Num(n) \in Cell
             /\ Sound(Push(s, Num(n)), <<Entry("num", Num(n), s.SP)>> \o k)
  <1> DEFINE n == s[Register(op)]
             e == Entry("num", Num(n), s.SP)
  <1>1. n \in Byte /\ s.SP \in Byte
    BY RegisterFacts, AddrFacts DEF Sound, State
  <1> HIDE DEF n
  <1>2. /\ e \in Entries /\ e.kind = "num" /\ e.sp = s.SP /\ e.cell \in [byte : Byte]
        /\ OnStack(e) = Num(n) /\ Num(n) \in Cell
    BY <1>1, NumEntry, CellFacts
  <1> HIDE DEF e
  <1>3. Sound(Push(s, Num(n)), <<e>> \o k)
    BY <1>2, SoundPush
  <1> QED
    BY <1>1, <1>2, <1>3 DEF n, e

(* PHP, which marks what it pushes.                                         *)
LEMMA PHPEffect ==
  ASSUME NEW s, NEW k, Sound(s, k), Room(1, k)
  PROVE  /\ Status(s.SR \cup Marks) \in Cell
         /\ Sound(Push(s, Status(s.SR \cup Marks)), <<Entry("php", Status(s.SR), s.SP)>> \o k)
  <1> DEFINE S == s.SR
             sp == s.SP
             e == Entry("php", Status(S), sp)
             cell == Status(S \cup Marks)
  <1>1. S \in SUBSET Bits /\ S \cap Marks = {} /\ sp \in Byte
    BY DEF Sound, State
  <1> HIDE DEF S, sp
  <1>2. /\ e \in Entries /\ e.kind = "php" /\ e.sp = sp
        /\ e.cell \in [status : SUBSET (Bits \ Marks)] /\ OnStack(e) = cell /\ cell \in Cell
    BY <1>1 DEF Entry, Entries, Kinds, Cell, Status, OnStack, Bits, Marks
  <1> HIDE DEF e, cell
  <1>3. e.sp = s.SP
    BY <1>2 DEF sp
  <1>4. Sound(Push(s, cell), <<e>> \o k)
    BY <1>2, <1>3, SoundPush
  <1> QED
    BY <1>2, <1>4 DEF S, sp, e, cell

(* The register between the call that sets it and the one that sets Z and N. *)
LEMMA PulledFacts ==
  ASSUME NEW s, NEW k, Sound(s, k), Top({"num"}, k), NEW op
  PROVE  LET v == Popped(s).byte
             t == [Pop(s) EXCEPT ![Register(op)] = v]
         IN  t \in State /\ t[Register(op)] = v /\ t.SR = Pop(s).SR
  <1> DEFINE v == Popped(s).byte
             u == Pop(s)
  <1>1. u \in State /\ v \in Byte
    BY TakeNum DEF Sound
  <1> HIDE DEF u, v
  <1>2. LET t == [u EXCEPT ![Register(op)] = v]
        IN  t \in State /\ t[Register(op)] = v /\ t.SR = u.SR
    BY <1>1, RegisterFacts
  <1> QED
    BY <1>2, Zenon DEF u, v

(* PLA, PLX and PLY give the register back.                                 *)
LEMMA PLEffect ==
  ASSUME NEW s, NEW k, Sound(s, k), Top({"num"}, k), NEW op
  PROVE  /\ Sound(static_PL(s, Register(op)), Tail(k))
         /\ static_PL(s, Register(op))[Register(op)] = k[1].cell.byte
         /\ static_PL(s, Register(op)).SP = k[1].sp
  <1> DEFINE v == Popped(s).byte
             u == Pop(s)
             t == [u EXCEPT ![Register(op)] = v]
  <1>1. /\ Sound(u, Tail(k)) /\ u.SP = k[1].sp /\ Popped(s) = k[1].cell
        /\ Popped(s) \in [byte : Byte] /\ v \in Byte
    BY TakeNum
  <1>2. u \in State /\ u.SR \cap Marks = {} /\ Popped(s) \in Cell /\ v = k[1].cell.byte
    BY <1>1 DEF Sound, Cell
  <1>3. static_PL(s, Register(op)) = DidSet(t, v)
    BY DEF static_PL
  <1> HIDE DEF u, v
  <1>4. t \in State /\ t[Register(op)] = v /\ t.SP = u.SP /\ t.SR = u.SR /\ t.page1 = u.page1
    BY <1>1, <1>2, RegisterFacts
  <1> HIDE DEF t
  <1>5. /\ DidSet(t, v) \in State /\ DidSet(t, v).SR \cap Marks = t.SR \cap Marks
        /\ DidSet(t, v).A = t.A /\ DidSet(t, v).X = t.X /\ DidSet(t, v).Y = t.Y
        /\ DidSet(t, v).SP = t.SP /\ DidSet(t, v).page1 = t.page1
    BY <1>4, DidSetFacts
  <1>6. Register(op) = "A" \/ Register(op) = "X" \/ Register(op) = "Y"
    BY DEF Register
  <1>7. DidSet(t, v)[Register(op)] = t[Register(op)]
    <2>1. CASE Register(op) = "A"
      BY <1>5, <2>1
    <2>2. CASE Register(op) = "X"
      BY <1>5, <2>2
    <2>3. CASE Register(op) = "Y"
      BY <1>5, <2>3
    <2> QED
      BY <1>6, <2>1, <2>2, <2>3
  <1>8. DidSet(t, v).SP = u.SP /\ DidSet(t, v).page1 = u.page1 /\ DidSet(t, v).SR \cap Marks = {}
    BY <1>2, <1>4, <1>5
  <1>9. Sound(DidSet(t, v), Tail(k))
    BY <1>1, <1>5, <1>8, SoundSame
  <1> QED
    BY <1>1, <1>2, <1>3, <1>4, <1>7, <1>8, <1>9, Zenon

(* PLP gives the status back without the marks PHP pushed with it.          *)
LEMMA PLPEffect ==
  ASSUME NEW s, NEW k, Sound(s, k), Top({"php"}, k)
  PROVE  LET r == static_PLP(s)
         IN  /\ Popped(s) \in [status : SUBSET Bits] /\ Popped(s).status \in SUBSET Bits
             /\ Unmarked(Popped(s).status) \in SUBSET Bits
             /\ Sound(r, Tail(k)) /\ r.SR = k[1].cell.status /\ r.SP = k[1].sp
  <1> DEFINE u == Pop(s)
             S == Unmarked(Popped(s).status)
  <1>1. Top({"sr", "brk", "php"}, k)
    BY DEF Top
  <1>2. /\ Sound(u, Tail(k)) /\ u.SP = k[1].sp
        /\ Popped(s) \in [status : SUBSET Bits] /\ Popped(s).status \in SUBSET Bits
        /\ S = k[1].cell.status
    BY <1>1, TakeStatus
  <1>3. k[1].cell.status \in SUBSET Bits
    BY <1>1, TakeStatus
  <1>4. k[1].cell.status \cap Marks = {}
    BY <1>1, TakeStatus
  <1>5. static_PLP(s) = [u EXCEPT !.SR = S]
    BY DEF static_PLP
  <1>6. S \in SUBSET Bits /\ S \cap Marks = {} /\ u \in State
    BY <1>2, <1>3, <1>4 DEF Sound
  <1> HIDE DEF u, S
  <1>7. LET r == [u EXCEPT !.SR = S]
        IN  r \in State /\ r.SR = S /\ r.SP = u.SP /\ r.page1 = u.page1
    BY <1>6, StatusFacts
  <1>8. Sound([u EXCEPT !.SR = S], Tail(k))
    BY <1>2, <1>6, <1>7, SoundSame
  <1>9. Sound(static_PLP(s), Tail(k)) /\ static_PLP(s).SR = S /\ static_PLP(s).SP = k[1].sp
    BY <1>2, <1>5, <1>7, <1>8, Zenon
  <1>10. Unmarked(Popped(s).status) \in SUBSET Bits
    BY <1>6 DEF S
  <1> QED
    BY <1>2, <1>9, <1>10

(* Jumps and branches leave the stack alone.                                *)
LEMMA JumpEffect ==
  ASSUME NEW s, NEW k, Sound(s, k), NEW p \in Addr
  PROVE  Sound(Jump(s, p), k)
  BY JumpFacts, SoundSame DEF Sound

(* So do the instructions that set a flag.                                  *)
LEMMA FlagEffect ==
  ASSUME NEW s, NEW k, Sound(s, k)
  PROVE  /\ Sound(CLC(s), k) /\ Sound(SEC(s), k) /\ Sound(CLD(s), k) /\ Sound(SED(s), k)
         /\ Sound(CLI(s), k) /\ Sound(SEI(s), k) /\ Sound(CLV(s), k)
  <1>1. s \in State /\ s.SR \in SUBSET Bits /\ s.SR \cap Marks = {}
    BY DEF Sound, State
  <1>2. ASSUME NEW S \in SUBSET Bits, S \cap Marks = {}
        PROVE  Sound([s EXCEPT !.SR = S], k)
    <2> DEFINE t == [s EXCEPT !.SR = S]
    <2>1. t \in State /\ t.SR = S /\ t.SP = s.SP /\ t.page1 = s.page1
      BY <1>1, StatusFacts
    <2> HIDE DEF t
    <2>2. Sound(t, k)
      BY <1>2, <2>1, SoundSame
    <2> QED
      BY <2>2 DEF t
  <1>3. ASSUME NEW b \in Bits \ Marks
        PROVE  /\ Sound([s EXCEPT !.SR = s.SR \cup {b}], k)
               /\ Sound([s EXCEPT !.SR = s.SR \ {b}], k)
    <2>1. /\ s.SR \cup {b} \in SUBSET Bits /\ (s.SR \cup {b}) \cap Marks = {}
          /\ s.SR \ {b} \in SUBSET Bits /\ (s.SR \ {b}) \cap Marks = {}
      BY <1>1
    <2> QED
      BY <1>2, <2>1
  <1>4. "C" \in Bits \ Marks /\ "D" \in Bits \ Marks /\ "I" \in Bits \ Marks /\ "V" \in Bits \ Marks
    BY DEF Bits, Marks
  <1>5. Sound(CLC(s), k) /\ Sound(SEC(s), k)
    BY <1>3, <1>4, Zenon DEF CLC, SEC
  <1>6. Sound(CLD(s), k) /\ Sound(SED(s), k)
    BY <1>3, <1>4, Zenon DEF CLD, SED
  <1>7. Sound(CLI(s), k) /\ Sound(SEI(s), k)
    BY <1>3, <1>4, Zenon DEF CLI, SEI
  <1>8. Sound(CLV(s), k)
    BY <1>3, <1>4, Zenon DEF CLV
  <1> QED
    BY <1>5, <1>6, <1>7, <1>8

(* TXS moves SP, and so wants an empty stack; TSX does not.                 *)
LEMMA TransferEffect ==
  ASSUME NEW s, NEW k, Sound(s, k)
  PROVE  /\ k = << >> => Sound(TXS(s), k)
         /\ Sound(TSX(s), k)
  <1>1. s \in State /\ s.SR \cap Marks = {} /\ k \in Seq(Entries)
    BY DEF Sound
  <1>2. ASSUME k = << >> PROVE Sound(TXS(s), k)
    <2>1. TXS(s) \in State /\ TXS(s).SR = s.SR
      BY <1>1 DEF TXS, State
    <2>2. Len(k) = 0
      BY <1>2
    <2>3. Mirrors(TXS(s), k) /\ Nested(k)
      BY <2>2, RadixAssumption DEF Mirrors, Nested
    <2> QED
      BY <1>1, <2>1, <2>3 DEF Sound
  <1>3. Sound(TSX(s), k)
    <2> DEFINE t == [s EXCEPT !.X = s.SP]
    <2>1. t \in State /\ t.SR = s.SR /\ t.SP = s.SP /\ t.page1 = s.page1
      BY <1>1 DEF State
    <2>2. TSX(s) = DidSet(t, s.SP)
      BY DEF TSX
    <2> HIDE DEF t
    <2>3. /\ DidSet(t, s.SP) \in State /\ DidSet(t, s.SP).SR \cap Marks = t.SR \cap Marks
          /\ DidSet(t, s.SP).SP = t.SP /\ DidSet(t, s.SP).page1 = t.page1
      BY <2>1, DidSetFacts
    <2> QED
      BY <1>1, <2>1, <2>2, <2>3, SoundSame
  <1> QED
    BY <1>2, <1>3

-----------------------------------------------------------------------------
(* A call that ends the instruction re-establishes the invariant when it    *)
(* leaves what Kept says on a sound stack.                                  *)
LEMMA EndStep ==
  ASSUME IInv, instr # "none", NEW n, NEW s, End(n, s), Sound(s, Kept(instr, before, kept))
  PROVE  IInv'
  <1>1. /\ instr' = "none" /\ cycle' = 0 /\ cpu' = s /\ before' = s
        /\ kept' = Kept(instr, before, kept) /\ done' = done + 1
        /\ ADDR16' = ADDR16 /\ BYTE' = BYTE
    BY DEF End
  <1>2. Sound(before', kept') /\ before' \in State /\ kept' \in Seq(Entries)
    BY <1>1 DEF Sound
  <1>3. done' \in 0 .. MaxInstr
    BY <1>1, MaxInstrAssumption DEF IInv, TypeOK
  <1>4. TypeOK'
    BY <1>1, <1>2, <1>3 DEF IInv, TypeOK
  <1>5. Progress'
    BY <1>1 DEF Progress, At, Interrupts, Pushes, Pulls, Indirect, Branches, OneCall
  <1>6. Sound(before, kept)'
    BY <1>2
  <1> QED
    BY <1>1, <1>4, <1>5, <1>6 DEF IInv

(* A call that does not end it leaves what the instruction began with.      *)
LEMMA CallStep ==
  ASSUME IInv, instr # "none", NEW n \in 1 .. 5, NEW s \in State, NEW a \in Addr, NEW b \in Cell,
         Call(n, s, a, b), Progress'
  PROVE  IInv'
  <1>1. /\ cycle' = n + 1 /\ cpu' = s /\ ADDR16' = a /\ BYTE' = b
        /\ instr' = instr /\ before' = before /\ kept' = kept /\ done' = done
    BY DEF Call
  <1>2. TypeOK'
    BY <1>1 DEF IInv, TypeOK
  <1>3. Sound(before', kept') /\ (instr' # "none" => Allowed(instr', before', kept') /\ done' < MaxInstr)
    BY <1>1 DEF IInv
  <1> QED
    BY <1>2, <1>3 DEF IInv

(* The calls an NMI and an IRQ have in common: PC and SR go on the stack,   *)
(* then I is set.                                                           *)
LEMMA EnterStep ==
  ASSUME IInv, instr \in Interrupts,
         \/ Call(1, PushHi, ADDR16, BYTE)
         \/ Call(2, PushLo, ADDR16, BYTE)
         \/ Call(3, MaskIrq(Push(cpu, Status(cpu.SR))), ADDR16, BYTE)
  PROVE  IInv' /\ instr' = instr
  <1> DEFINE hi == Push(before, Num(Hi(before.PC)))
  <1>1. /\ instr # "none" /\ InterruptProgress /\ Sound(before, kept) /\ Room(3, kept)
        /\ cpu \in State /\ before \in State /\ ADDR16 \in Addr /\ BYTE \in Cell
    BY DEF IInv, Progress, TypeOK, Allowed, Interrupts
  <1>2. /\ cpu.PC \in Addr /\ cpu.SR \in SUBSET Bits
        /\ Num(Hi(cpu.PC)) \in Cell /\ Num(Lo(cpu.PC)) \in Cell /\ Status(cpu.SR) \in Cell
    BY <1>1, AddrFacts, CellFacts DEF State
  <1>3. CASE Call(1, PushHi, ADDR16, BYTE)
    <2>1. cycle = 1 /\ cycle' = 2 /\ cpu' = PushHi /\ instr' = instr /\ before' = before
      BY <1>3 DEF Call
    <2>2. cpu = before
      BY <1>1, <2>1 DEF InterruptProgress, At
    <2>3. InterruptProgress'
      BY <2>1, <2>2 DEF InterruptProgress, At, PushHi
    <2>4. Progress'
      BY <1>1, <2>1, <2>3 DEF Progress, Interrupts, Pushes, Pulls, Indirect, Branches, OneCall
    <2>5. PushHi \in State
      BY <1>1, <1>2, PushFacts DEF PushHi
    <2> QED
      BY <1>1, <1>3, <2>1, <2>4, <2>5, CallStep
  <1>4. CASE Call(2, PushLo, ADDR16, BYTE)
    <2>1. cycle = 2 /\ cycle' = 3 /\ cpu' = PushLo /\ instr' = instr /\ before' = before
      BY <1>4 DEF Call
    <2>2. cpu = hi
      BY <1>1, <2>1 DEF InterruptProgress, At
    <2>3. hi.PC = before.PC
      <3>1. Num(Hi(before.PC)) \in Cell
        BY <1>1, AddrFacts, CellFacts DEF State
      <3> QED
        BY <1>1, <3>1, PushFacts
    <2>4. InterruptProgress'
      BY <2>1, <2>2, <2>3 DEF InterruptProgress, At, PushLo, PushPC
    <2>5. Progress'
      BY <1>1, <2>1, <2>4 DEF Progress, Interrupts, Pushes, Pulls, Indirect, Branches, OneCall
    <2>6. PushLo \in State
      BY <1>1, <1>2, PushFacts DEF PushLo
    <2> QED
      BY <1>1, <1>4, <2>1, <2>5, <2>6, CallStep
  <1>5. CASE Call(3, MaskIrq(Push(cpu, Status(cpu.SR))), ADDR16, BYTE)
    <2>1. /\ cycle = 3 /\ cycle' = 4 /\ cpu' = MaskIrq(Push(cpu, Status(cpu.SR)))
          /\ instr' = instr /\ before' = before
      BY <1>5 DEF Call
    <2>2. cpu = PushPC(before)
      BY <1>1, <2>1 DEF InterruptProgress, At
    <2>3. PushPC(before).SR = before.SR
      <3>1. Room(2, kept)
        BY <1>1, RadixAssumption DEF Room, Sound
      <3> QED
        BY <1>1, <3>1, SoundPushPC
    <2>4. InterruptProgress'
      BY <2>1, <2>2, <2>3 DEF InterruptProgress, At
    <2>5. Progress'
      BY <1>1, <2>1, <2>4 DEF Progress, Interrupts, Pushes, Pulls, Indirect, Branches, OneCall
    <2>6. MaskIrq(Push(cpu, Status(cpu.SR))) \in State
      BY <1>1, <1>2, PushFacts, MaskIrqFacts
    <2> QED
      BY <1>1, <1>5, <2>1, <2>5, <2>6, CallStep
  <1> QED
    BY <1>3, <1>4, <1>5

(* The staged NMI: after the last of its calls, the processor is where the  *)
(* static one takes it.                                                     *)
LEMMA NMIStep ==
  ASSUME IInv, NMI
  PROVE  IInv' /\ (instr' = "none" => cpu' = static_NMI(before))
  <1> DEFINE entered == MaskIrq(Push(PushPC(before), Status(before.SR)))
  <1>1. /\ instr = "NMI" /\ InterruptProgress /\ Sound(before, kept) /\ Room(3, kept)
        /\ cpu \in State /\ before \in State /\ ADDR16 \in Addr /\ BYTE \in Cell
    BY DEF IInv, Progress, TypeOK, NMI, Allowed, Interrupts
  <1>2. CASE \/ Call(1, PushHi, ADDR16, BYTE)
             \/ Call(2, PushLo, ADDR16, BYTE)
             \/ Call(3, MaskIrq(Push(cpu, Status(cpu.SR))), ADDR16, BYTE)
    BY <1>1, <1>2, EnterStep DEF Interrupts
  <1>3. CASE Call(4, cpu, Low(NmiVector), BYTE)
    <2>1. /\ cycle = 4 /\ cycle' = 5 /\ cpu' = cpu /\ ADDR16' = Low(NmiVector)
          /\ instr' = instr /\ before' = before
      BY <1>3 DEF Call
    <2>2. cpu = entered
      BY <1>1, <2>1 DEF InterruptProgress, At
    <2>3. InterruptProgress'
      BY <1>1, <2>1, <2>2 DEF InterruptProgress, At
    <2>4. Progress'
      BY <1>1, <2>1, <2>3 DEF Progress, Interrupts, Pushes, Pulls, Indirect, Branches, OneCall
    <2> QED
      BY <1>1, <1>3, <2>1, <2>4, AddrFacts, CallStep
  <1>4. CASE End(5, Jump(cpu, WithHigh(Inc(NmiVector))))
    <2>1. cycle = 5 /\ cpu' = Jump(cpu, WithHigh(Inc(NmiVector)))
      BY <1>4 DEF End
    <2>2. cpu = entered /\ ADDR16 = Low(NmiVector)
      BY <1>1, <2>1 DEF InterruptProgress, At
    <2>3. WithHigh(Inc(NmiVector)) = Word(NmiVector)
      BY <2>2 DEF WithHigh, Word, Low, Lo
    <2>4. Kept(instr, before, kept) = Interrupted("sr", before, before.PC) \o kept
      BY <1>1, KeptFacts DEF Interrupts
    <2>5. Sound(Jump(entered, Word(NmiVector)), Interrupted("sr", before, before.PC) \o kept)
      BY <1>1, AddrFacts, InterruptEffect
    <2>6. Jump(cpu, WithHigh(Inc(NmiVector))) = Jump(entered, Word(NmiVector))
      BY <2>2, <2>3
    <2>7. Sound(Jump(cpu, WithHigh(Inc(NmiVector))), Kept(instr, before, kept))
      BY <2>4, <2>5, <2>6, Zenon
    <2>8. cpu' = static_NMI(before)
      BY <2>1, <2>6 DEF static_NMI
    <2> QED
      BY <1>1, <1>4, <2>7, <2>8, EndStep
  <1> QED
    BY <1>2, <1>3, <1>4 DEF NMI

(* The staged IRQ: the call after the one that sets I ends it, with PC, SR  *)
(* and I as an interrupt leaves them and no jump.                           *)
LEMMA IRQStep ==
  ASSUME IInv, IRQ
  PROVE  IInv'
  <1> DEFINE hi == Push(before, Num(Hi(before.PC)))
             entered == MaskIrq(Push(PushPC(before), Status(before.SR)))
  <1>1. /\ instr = "IRQ" /\ InterruptProgress /\ Sound(before, kept) /\ Room(3, kept)
        /\ "I" \notin before.SR /\ before \in State
    BY DEF IInv, Progress, TypeOK, IRQ, Allowed, Interrupts
  <1>2. CASE "I" \notin cpu.SR
    BY <1>1, <1>2, EnterStep DEF IRQ, Interrupts
  <1>3. CASE "I" \in cpu.SR
    <2>1. End(cycle, cpu)
      BY <1>3 DEF IRQ
    <2>2. hi.SR = before.SR
      <3>1. Num(Hi(before.PC)) \in Cell
        BY <1>1, AddrFacts, CellFacts DEF State
      <3> QED
        BY <1>1, <3>1, PushFacts
    <2>3. PushPC(before).SR = before.SR
      <3>1. Room(2, kept)
        BY <1>1, RadixAssumption DEF Room, Sound
      <3> QED
        BY <1>1, <3>1, SoundPushPC
    <2>4. cpu = entered
      BY <1>1, <1>3, <2>2, <2>3 DEF InterruptProgress, At
    <2>5. Kept(instr, before, kept) = Interrupted("sr", before, before.PC) \o kept
      BY <1>1, KeptFacts DEF Interrupts
    <2>6. Sound(entered, Interrupted("sr", before, before.PC) \o kept)
      BY <1>1, InterruptEffect
    <2>7. Sound(cpu, Kept(instr, before, kept))
      BY <2>4, <2>5, <2>6, Zenon
    <2> QED
      BY <1>1, <2>1, <2>7, EndStep
  <1> QED
    BY <1>2, <1>3

(* The processor after the fetch of the opcode and of the operand's bytes.  *)
LEMMA OpcodeFacts ==
  ASSUME IInv
  PROVE  LET next == Fetched(Operand)
         IN  /\ before \in State /\ before.PC \in Addr
             /\ Opcode \in State /\ Operand \in State /\ next \in State
             /\ Sound(before, kept) /\ Sound(Opcode, kept) /\ Sound(Operand, kept)
             /\ Sound(next, kept)
             /\ Opcode.SP = before.SP /\ Operand.SP = before.SP /\ next.SP = before.SP
             /\ Opcode.SR = before.SR /\ Operand.SR = before.SR /\ next.SR = before.SR
             /\ Opcode.isa = before.isa /\ next.isa = before.isa
             /\ Opcode.X = before.X /\ next.X = before.X
             /\ Opcode.PC = Inc(before.PC) /\ Opcode.PC \in Addr
             /\ Operand.PC = Inc(Inc(before.PC)) /\ Operand.PC \in Addr
             /\ next.PC = Inc(Inc(Inc(before.PC))) /\ next.PC \in Addr
  <1>1. before \in State /\ Sound(before, kept)
    BY DEF IInv, TypeOK
  <1>2. /\ Opcode \in State /\ before.PC \in Addr /\ Sound(Opcode, kept)
        /\ Opcode.SP = before.SP /\ Opcode.SR = before.SR /\ Opcode.isa = before.isa
        /\ Opcode.X = before.X /\ Opcode.PC = Inc(before.PC)
    BY <1>1, FetchedFacts, FetchedSound DEF Opcode
  <1>3. /\ Operand \in State /\ Opcode.PC \in Addr /\ Sound(Operand, kept)
        /\ Operand.SP = Opcode.SP /\ Operand.SR = Opcode.SR /\ Operand.isa = Opcode.isa
        /\ Operand.X = Opcode.X /\ Operand.PC = Inc(Opcode.PC)
    BY <1>2, FetchedFacts, FetchedSound DEF Operand
  <1>4. /\ Fetched(Operand) \in State /\ Operand.PC \in Addr /\ Sound(Fetched(Operand), kept)
        /\ Fetched(Operand).SP = Operand.SP /\ Fetched(Operand).SR = Operand.SR
        /\ Fetched(Operand).isa = Operand.isa
        /\ Fetched(Operand).X = Operand.X /\ Fetched(Operand).PC = Inc(Operand.PC)
    BY <1>3, FetchedFacts, FetchedSound
  <1>5. Fetched(Operand).PC \in Addr
    BY <1>4 DEF State
  <1> QED
    BY <1>1, <1>2, <1>3, <1>4, <1>5, Zenon

(* The staged BRK.                                                          *)
LEMMA BRKStep ==
  ASSUME IInv, BRK
  PROVE  IInv' /\ (instr' = "none" => cpu' = static_BRK(Opcode))
  <1> DEFINE hi == Push(Operand, Num(Hi(Operand.PC)))
             pushed == Push(PushPC(Operand), Status(before.SR \cup {"B"}))
             low == Jump(MaskIrq(pushed), Low(NmiVector))
  <1>1. /\ instr = "BRK" /\ BRKProgress /\ Room(3, kept)
        /\ cpu \in State /\ ADDR16 \in Addr /\ BYTE \in Cell
    BY DEF IInv, Progress, TypeOK, BRK, Allowed, Interrupts
  <1>2. /\ Opcode \in State /\ Operand \in State /\ Sound(Opcode, kept) /\ Sound(Operand, kept)
        /\ Opcode.SR = before.SR /\ Operand.SR = before.SR
        /\ Opcode.PC = Inc(before.PC) /\ Opcode.SP = before.SP
    BY OpcodeFacts
  <1>3. /\ pushed \in State /\ pushed.SR = before.SR /\ MaskIrq(pushed) \in State
        /\ \A p \in Addr : Sound(Jump(MaskIrq(pushed), p), Kept(instr, before, kept))
    <2>1. Kept(instr, before, kept) = Interrupted("brk", Opcode, Inc(Opcode.PC)) \o kept
      <3>1. Kept("BRK", before, kept) = Interrupted("brk", before, Inc(Inc(before.PC))) \o kept
        BY KeptFacts
      <3>2. Interrupted("brk", before, Inc(Inc(before.PC))) = Interrupted("brk", Opcode, Inc(Opcode.PC))
        BY <1>2, Zenon DEF Interrupted, SavedPC
      <3> QED
        BY <1>1, <3>1, <3>2, Zenon
    <2>2. pushed = Push(PushPC(Fetched(Opcode)), Status(Opcode.SR \cup {"B"}))
      BY <1>2 DEF Operand
    <2> HIDE DEF pushed
    <2> QED
      BY <1>1, <1>2, <2>1, <2>2, BRKEffect, Zenon
  <1>4. CASE Call(1, LET s == Fetched(cpu) IN Push(s, Num(Hi(s.PC))), ADDR16, BYTE)
    <2>1. /\ cycle = 1 /\ cycle' = 2 /\ cpu' = Push(Fetched(cpu), Num(Hi(Fetched(cpu).PC)))
          /\ instr' = instr /\ before' = before
      BY <1>4 DEF Call
    <2>2. cpu = Opcode /\ Fetched(cpu) = Operand
      BY <1>1, <2>1 DEF BRKProgress, At, Operand
    <2>3. Operand' = Operand
      BY <2>1 DEF Operand, Opcode
    <2>4. cpu' = hi
      BY <2>1, <2>2
    <2>5. BRKProgress'
      BY <2>1, <2>3, <2>4 DEF BRKProgress, At
    <2>6. Progress'
      BY <1>1, <2>1, <2>5 DEF Progress, Interrupts, Pushes, Pulls, Indirect, Branches, OneCall
    <2>7. hi \in State
      <3>1. Num(Hi(Operand.PC)) \in Cell
        BY <1>2, AddrFacts, CellFacts DEF State
      <3> QED
        BY <1>2, <3>1, PushFacts
    <2>8. Call(1, hi, ADDR16, BYTE)
      BY <1>4, <2>2
    <2> HIDE DEF hi
    <2> QED
      BY <1>1, <2>1, <2>6, <2>7, <2>8, CallStep
  <1>5. CASE Call(2, PushLo, ADDR16, BYTE)
    <2>1. cycle = 2 /\ cycle' = 3 /\ cpu' = PushLo /\ instr' = instr /\ before' = before
      BY <1>5 DEF Call
    <2>2. cpu = hi
      BY <1>1, <2>1 DEF BRKProgress, At
    <2>3. hi.PC = Operand.PC /\ Operand' = Operand
      <3>1. Num(Hi(Operand.PC)) \in Cell
        BY <1>2, AddrFacts, CellFacts DEF State
      <3> QED
        BY <1>2, <2>1, <3>1, PushFacts DEF Operand, Opcode
    <2>4. BRKProgress'
      BY <2>1, <2>2, <2>3 DEF BRKProgress, At, PushLo, PushPC
    <2>5. Progress'
      BY <1>1, <2>1, <2>4 DEF Progress, Interrupts, Pushes, Pulls, Indirect, Branches, OneCall
    <2>6. PushLo \in State
      <3>1. Num(Lo(cpu.PC)) \in Cell
        BY <1>1, AddrFacts, CellFacts DEF State
      <3> QED
        BY <1>1, <3>1, PushFacts DEF PushLo
    <2> QED
      BY <1>1, <1>5, <2>1, <2>5, <2>6, CallStep
  <1>6. CASE Call(3, Push(cpu, Status(cpu.SR \cup {"B"})), ADDR16, BYTE)
    <2>1. /\ cycle = 3 /\ cycle' = 4 /\ cpu' = Push(cpu, Status(cpu.SR \cup {"B"}))
          /\ instr' = instr /\ before' = before
      BY <1>6 DEF Call
    <2>2. cpu = PushPC(Operand)
      BY <1>1, <2>1 DEF BRKProgress, At
    <2>3. PushPC(Operand).SR = before.SR /\ Operand' = Operand
      <3>1. Room(2, kept)
        BY <1>1, <1>2, RadixAssumption DEF Room, Sound
      <3> QED
        BY <1>2, <2>1, <3>1, SoundPushPC DEF Operand, Opcode
    <2>4. Push(cpu, Status(cpu.SR \cup {"B"})) = pushed
      BY <2>2, <2>3
    <2>5. BRKProgress'
      BY <2>1, <2>3, <2>4 DEF BRKProgress, At
    <2>6. Progress'
      BY <1>1, <2>1, <2>5 DEF Progress, Interrupts, Pushes, Pulls, Indirect, Branches, OneCall
    <2> HIDE DEF pushed
    <2> QED
      BY <1>1, <1>3, <1>6, <2>1, <2>4, <2>6, CallStep
  <1>7. CASE Call(4, MaskIrq(cpu), ADDR16, BYTE)
    <2>1. cycle = 4 /\ cycle' = 5 /\ cpu' = MaskIrq(cpu) /\ instr' = instr /\ before' = before
      BY <1>7 DEF Call
    <2>2. cpu = pushed /\ Operand' = Operand
      BY <1>1, <2>1 DEF BRKProgress, At, Operand, Opcode
    <2>3. BRKProgress'
      BY <2>1, <2>2 DEF BRKProgress, At
    <2>4. Progress'
      BY <1>1, <2>1, <2>3 DEF Progress, Interrupts, Pushes, Pulls, Indirect, Branches, OneCall
    <2>5. MaskIrq(cpu) \in State
      BY <1>1, MaskIrqFacts
    <2> QED
      BY <1>1, <1>7, <2>1, <2>4, <2>5, CallStep
  <1>8. CASE Call(5, Jump(cpu, Low(NmiVector)), ADDR16, BYTE)
    <2>1. /\ cycle = 5 /\ cycle' = 6 /\ cpu' = Jump(cpu, Low(NmiVector))
          /\ instr' = instr /\ before' = before
      BY <1>8 DEF Call
    <2>2. cpu = MaskIrq(pushed) /\ Operand' = Operand
      BY <1>1, <2>1 DEF BRKProgress, At, Operand, Opcode
    <2>3. BRKProgress'
      BY <2>1, <2>2 DEF BRKProgress, At
    <2>4. Progress'
      BY <1>1, <2>1, <2>3 DEF Progress, Interrupts, Pushes, Pulls, Indirect, Branches, OneCall
    <2>5. Jump(cpu, Low(NmiVector)) \in State
      BY <1>1, AddrFacts, JumpFacts
    <2> QED
      BY <1>1, <1>8, <2>1, <2>4, <2>5, CallStep
  <1>9. CASE End(6, Jump(cpu, <<ROM[Inc(NmiVector)], Lo(cpu.PC)>>))
    <2> DEFINE r == Jump(cpu, <<ROM[Inc(NmiVector)], Lo(cpu.PC)>>)
    <2>1. cycle = 6 /\ cpu' = r
      BY <1>9 DEF End
    <2>2. cpu = low
      BY <1>1, <2>1 DEF BRKProgress, At
    <2>3. low.PC = Low(NmiVector)
      BY <1>3, AddrFacts, JumpFacts
    <2>4. <<ROM[Inc(NmiVector)], Lo(cpu.PC)>> = Word(NmiVector)
      BY <2>2, <2>3 DEF Low, Word, Lo
    <2>5. Jump(low, Word(NmiVector)) = Jump(MaskIrq(pushed), Word(NmiVector))
      <3> DEFINE m == MaskIrq(pushed)
      <3>1. m \in State
        BY <1>3
      <3> HIDE DEF m
      <3>2. Jump(Jump(m, Low(NmiVector)), Word(NmiVector)) = Jump(m, Word(NmiVector))
        BY <3>1 DEF Jump, State
      <3> QED
        BY <3>2 DEF m
    <2>6. r = Jump(MaskIrq(pushed), Word(NmiVector))
      BY <2>2, <2>4, <2>5
    <2>7. Sound(r, Kept(instr, before, kept))
      BY <1>3, <2>6, AddrFacts
    <2>8. cpu' = static_BRK(Opcode)
      BY <1>2, <2>1, <2>6 DEF static_BRK, Operand
    <2> HIDE DEF r
    <2>9. End(6, r)
      BY <1>9 DEF r
    <2> QED
      BY <1>1, <2>7, <2>8, <2>9, EndStep
  <1> QED
    BY <1>4, <1>5, <1>6, <1>7, <1>8, <1>9 DEF BRK

(* A pop finds the same, and moves SP the same, whatever SR is.             *)
LEMMA PopStatus ==
  ASSUME NEW s \in State, NEW S \in SUBSET Bits
  PROVE  LET t == [s EXCEPT !.SR = S]
         IN  Pop(t) = [Pop(s) EXCEPT !.SR = S] /\ Popped(t) = Popped(s)
  BY DEF Pop, Popped, State

(* The staged RTI.                                                          *)
LEMMA RTIStep ==
  ASSUME IInv, RTI
  PROVE  IInv' /\ (instr' = "none" => cpu' = static_RTI(Opcode))
  <1> DEFINE popped == Pop(Opcode)
             twice == Pop(popped)
             status == Unmarked(Popped(Opcode).status)
  <1>1. /\ instr = "RTI" /\ RTIProgress /\ Top({"sr", "brk"}, kept)
        /\ cpu \in State /\ ADDR16 \in Addr /\ BYTE \in Cell
    BY DEF IInv, Progress, TypeOK, RTI, Allowed, Interrupts
  <1>2. Opcode \in State /\ Sound(Opcode, kept)
    BY OpcodeFacts
  <1>3. /\ Sound(static_RTI(Opcode), SubSeq(kept, 4, Len(kept)))
        /\ Popped(popped).byte \in Byte /\ Popped(twice).byte \in Byte
        /\ popped \in State /\ twice \in State /\ Popped(Opcode) \in Cell
    BY <1>1, <1>2, RTIEffect, PopFacts
  <1>4. status \in SUBSET Bits
    BY <1>1, <1>2, RTIEffect
  <1>5. CASE Call(1, Pop(cpu), ADDR16, Popped(cpu))
    <2>1. /\ cycle = 1 /\ cycle' = 2 /\ cpu' = Pop(cpu) /\ BYTE' = Popped(cpu)
          /\ instr' = instr /\ before' = before
      BY <1>5 DEF Call
    <2>2. cpu = Opcode /\ Opcode' = Opcode
      BY <1>1, <2>1 DEF RTIProgress, At, Opcode
    <2>3. RTIProgress'
      BY <2>1, <2>2 DEF RTIProgress, At
    <2>4. Progress'
      BY <1>1, <2>1, <2>3 DEF Progress, Interrupts, Pushes, Pulls, Indirect, Branches, OneCall
    <2> QED
      BY <1>1, <1>5, <2>1, <2>4, PopFacts, CallStep
  <1>6. CASE Call(2, cpu, ADDR16, Status(Unmarked(BYTE.status)))
    <2>1. /\ cycle = 2 /\ cycle' = 3 /\ cpu' = cpu /\ BYTE' = Status(Unmarked(BYTE.status))
          /\ instr' = instr /\ before' = before
      BY <1>6 DEF Call
    <2>2. cpu = popped /\ BYTE = Popped(Opcode) /\ Opcode' = Opcode
      BY <1>1, <2>1 DEF RTIProgress, At, Opcode
    <2>3. RTIProgress'
      BY <2>1, <2>2 DEF RTIProgress, At
    <2>4. Progress'
      BY <1>1, <2>1, <2>3 DEF Progress, Interrupts, Pushes, Pulls, Indirect, Branches, OneCall
    <2>5. Status(Unmarked(BYTE.status)) \in Cell
      BY <1>4, <2>2, CellFacts
    <2> QED
      BY <1>1, <1>6, <2>1, <2>4, <2>5, CallStep
  <1>7. CASE Call(3, [cpu EXCEPT !.SR = BYTE.status], ADDR16, BYTE)
    <2>1. /\ cycle = 3 /\ cycle' = 4 /\ cpu' = [cpu EXCEPT !.SR = BYTE.status]
          /\ instr' = instr /\ before' = before
      BY <1>7 DEF Call
    <2>2. cpu = popped /\ BYTE = Status(status) /\ Opcode' = Opcode
      BY <1>1, <2>1 DEF RTIProgress, At, Opcode
    <2>3. BYTE.status = status
      BY <2>2 DEF Status
    <2>4. RTIProgress'
      BY <2>1, <2>2, <2>3 DEF RTIProgress, At
    <2>5. Progress'
      BY <1>1, <2>1, <2>4 DEF Progress, Interrupts, Pushes, Pulls, Indirect, Branches, OneCall
    <2>6. [cpu EXCEPT !.SR = BYTE.status] \in State
      <3> HIDE DEF status
      <3> QED
        BY <1>1, <1>4, <2>3, StatusFacts
    <2> QED
      BY <1>1, <1>7, <2>1, <2>5, <2>6, CallStep
  <1>8. CASE Call(4, Pop(cpu), <<0, Popped(cpu).byte>>, BYTE)
    <2>1. /\ cycle = 4 /\ cycle' = 5 /\ cpu' = Pop(cpu) /\ ADDR16' = <<0, Popped(cpu).byte>>
          /\ instr' = instr /\ before' = before
      BY <1>8 DEF Call
    <2>2. cpu = [popped EXCEPT !.SR = status] /\ Opcode' = Opcode
      BY <1>1, <2>1 DEF RTIProgress, At, Opcode
    <2>3. Pop(cpu) = [twice EXCEPT !.SR = status] /\ Popped(cpu) = Popped(popped)
      <3> HIDE DEF status, popped
      <3> QED
        BY <1>3, <1>4, <2>2, PopStatus
    <2>4. RTIProgress'
      BY <2>1, <2>2, <2>3 DEF RTIProgress, At
    <2>5. Progress'
      BY <1>1, <2>1, <2>4 DEF Progress, Interrupts, Pushes, Pulls, Indirect, Branches, OneCall
    <2>6. <<0, Popped(cpu).byte>> \in Addr /\ Pop(cpu) \in State
      BY <1>1, <1>3, <2>3, AddrFacts, PopFacts DEF Addr
    <2> QED
      BY <1>1, <1>8, <2>1, <2>5, <2>6, CallStep
  <1>9. CASE End(5, Jump(Pop(cpu), <<Popped(cpu).byte, Lo(ADDR16)>>))
    <2> DEFINE r == Jump(Pop(cpu), <<Popped(cpu).byte, Lo(ADDR16)>>)
    <2>1. cycle = 5 /\ cpu' = r
      BY <1>9 DEF End
    <2>2. cpu = [twice EXCEPT !.SR = status] /\ ADDR16 = <<0, Popped(popped).byte>>
      BY <1>1, <2>1 DEF RTIProgress, At
    <2>3. Pop(cpu) = [Pop(twice) EXCEPT !.SR = status] /\ Popped(cpu) = Popped(twice)
      <3> HIDE DEF status, twice
      <3> QED
        BY <1>3, <1>4, <2>2, PopStatus
    <2>4. Lo(ADDR16) = Popped(popped).byte
      BY <2>2 DEF Lo
    <2>5. r = static_RTI(Opcode)
      <3> DEFINE p == <<Popped(twice).byte, Popped(popped).byte>>
                 v == Pop(twice)
      <3>1. r = Jump([v EXCEPT !.SR = status], p)
        BY <2>3, <2>4
      <3>2. static_RTI(Opcode) = [v EXCEPT !.SR = status, !.PC = p]
        BY DEF static_RTI
      <3>3. v \in State
        BY <1>3, PopFacts
      <3> HIDE DEF p, v, status
      <3>4. Jump([v EXCEPT !.SR = status], p) = [v EXCEPT !.SR = status, !.PC = p]
        BY <3>3 DEF Jump, State
      <3> QED
        BY <3>1, <3>2, <3>4
    <2>6. Kept(instr, before, kept) = SubSeq(kept, 4, Len(kept))
      BY <1>1, KeptFacts
    <2>7. Sound(r, Kept(instr, before, kept))
      BY <1>3, <2>5, <2>6, Zenon
    <2> HIDE DEF r
    <2>8. End(5, r)
      BY <1>9 DEF r
    <2> QED
      BY <1>1, <2>1, <2>5, <2>7, <2>8, EndStep
  <1> QED
    BY <1>5, <1>6, <1>7, <1>8, <1>9 DEF RTI

(* The staged JSR.                                                          *)
LEMMA JSRStep ==
  ASSUME IInv, JSR
  PROVE  IInv' /\ (instr' = "none" => cpu' = static_JSR(Opcode))
  <1> DEFINE next == Fetched(Operand)
             hi == Push(next, Num(Hi(next.PC)))
  <1>1. /\ instr = "JSR" /\ JSRProgress /\ Room(2, kept)
        /\ cpu \in State /\ ADDR16 \in Addr /\ BYTE \in Cell
    BY DEF IInv, Progress, TypeOK, JSR, Allowed, Interrupts
  <1>2. /\ Opcode \in State /\ Operand \in State /\ next \in State /\ Sound(next, kept)
        /\ Opcode.PC \in Addr /\ Operand.PC = Inc(Opcode.PC) /\ Operand.PC \in Addr
        /\ next.PC = Inc(Inc(Inc(before.PC))) /\ next.SP = before.SP
    BY OpcodeFacts, Zenon
  <1>3. /\ Num(Hi(cpu.PC)) \in Cell /\ Num(Lo(cpu.PC)) \in Cell /\ Num(Hi(next.PC)) \in Cell
        /\ cpu.PC \in Addr
    <2>1. cpu.PC \in Addr /\ next.PC \in Addr
      BY <1>1, <1>2 DEF State
    <2> QED
      BY <2>1, AddrFacts, CellFacts
  <1>4. CASE Call(1, Fetched(cpu), Low(cpu.PC), BYTE)
    <2>1. /\ cycle = 1 /\ cycle' = 2 /\ cpu' = Fetched(cpu) /\ ADDR16' = Low(cpu.PC)
          /\ instr' = instr /\ before' = before
      BY <1>4 DEF Call
    <2>2. cpu = Opcode /\ Opcode' = Opcode /\ Operand' = Operand
      BY <1>1, <2>1 DEF JSRProgress, At, Opcode, Operand
    <2>3. Fetched(cpu) = Operand
      BY <2>2 DEF Operand
    <2>4. JSRProgress'
      BY <2>1, <2>2, <2>3 DEF JSRProgress, At
    <2>5. Progress'
      BY <1>1, <2>1, <2>4 DEF Progress, Interrupts, Pushes, Pulls, Indirect, Branches, OneCall
    <2>6. Fetched(cpu) \in State /\ Low(cpu.PC) \in Addr
      BY <1>1, <1>3, FetchedFacts, AddrFacts
    <2> QED
      BY <1>1, <1>4, <2>1, <2>5, <2>6, CallStep
  <1>5. CASE Call(2, Fetched(cpu), WithHigh(cpu.PC), BYTE)
    <2>1. /\ cycle = 2 /\ cycle' = 3 /\ cpu' = Fetched(cpu) /\ ADDR16' = WithHigh(cpu.PC)
          /\ instr' = instr /\ before' = before
      BY <1>5 DEF Call
    <2>2. cpu = Operand /\ ADDR16 = Low(Opcode.PC) /\ Opcode' = Opcode /\ Operand' = Operand
      BY <1>1, <2>1 DEF JSRProgress, At, Opcode, Operand
    <2>3. WithHigh(cpu.PC) = Word(Opcode.PC)
      BY <1>2, <2>2 DEF WithHigh, Low, Lo, Word
    <2>4. JSRProgress'
      BY <2>1, <2>2, <2>3 DEF JSRProgress, At
    <2>5. Progress'
      BY <1>1, <2>1, <2>4 DEF Progress, Interrupts, Pushes, Pulls, Indirect, Branches, OneCall
    <2>6. Fetched(cpu) \in State /\ WithHigh(cpu.PC) \in Addr
      BY <1>1, <1>2, <2>3, FetchedFacts, AddrFacts
    <2> QED
      BY <1>1, <1>5, <2>1, <2>5, <2>6, CallStep
  <1>6. CASE Call(3, PushHi, ADDR16, BYTE)
    <2>1. /\ cycle = 3 /\ cycle' = 4 /\ cpu' = PushHi /\ ADDR16' = ADDR16
          /\ instr' = instr /\ before' = before
      BY <1>6 DEF Call
    <2>2. cpu = next /\ ADDR16 = Word(Opcode.PC) /\ Opcode' = Opcode /\ Operand' = Operand
      BY <1>1, <2>1 DEF JSRProgress, At, Opcode, Operand
    <2>3. PushHi = hi
      BY <2>2 DEF PushHi
    <2>4. JSRProgress'
      BY <2>1, <2>2, <2>3 DEF JSRProgress, At
    <2>5. Progress'
      BY <1>1, <2>1, <2>4 DEF Progress, Interrupts, Pushes, Pulls, Indirect, Branches, OneCall
    <2>6. PushHi \in State
      BY <1>1, <1>3, PushFacts DEF PushHi
    <2> QED
      BY <1>1, <1>6, <2>1, <2>5, <2>6, CallStep
  <1>7. CASE Call(4, PushLo, ADDR16, BYTE)
    <2>1. /\ cycle = 4 /\ cycle' = 5 /\ cpu' = PushLo /\ ADDR16' = ADDR16
          /\ instr' = instr /\ before' = before
      BY <1>7 DEF Call
    <2>2. cpu = hi /\ ADDR16 = Word(Opcode.PC) /\ Opcode' = Opcode /\ Operand' = Operand
      BY <1>1, <2>1 DEF JSRProgress, At, Opcode, Operand
    <2>3. PushLo = PushPC(next)
      <3>1. hi.PC = next.PC
        <4> HIDE DEF next
        <4> QED
          BY <1>2, <1>3, PushFacts
      <3> QED
        BY <2>2, <3>1 DEF PushLo, PushPC
    <2>4. JSRProgress'
      BY <2>1, <2>2, <2>3 DEF JSRProgress, At
    <2>5. Progress'
      BY <1>1, <2>1, <2>4 DEF Progress, Interrupts, Pushes, Pulls, Indirect, Branches, OneCall
    <2>6. PushLo \in State
      BY <1>1, <1>3, PushFacts DEF PushLo
    <2> QED
      BY <1>1, <1>7, <2>1, <2>5, <2>6, CallStep
  <1>8. CASE End(5, Jump(cpu, ADDR16))
    <2> DEFINE r == Jump(cpu, ADDR16)
    <2>1. cycle = 5 /\ cpu' = r
      BY <1>8 DEF End
    <2>2. cpu = PushPC(next) /\ ADDR16 = Word(Opcode.PC)
      BY <1>1, <2>1 DEF JSRProgress, At
    <2>3. r = static_JSR(Opcode)
      BY <2>2 DEF static_JSR, Skip2, Operand
    <2>4. Kept(instr, before, kept) = SavedPC(next, next.PC) \o kept
      <3>1. Kept("JSR", before, kept) = SavedPC(before, Inc(Inc(Inc(before.PC)))) \o kept
        BY KeptFacts
      <3>2. SavedPC(before, Inc(Inc(Inc(before.PC)))) = SavedPC(next, next.PC)
        BY <1>2, Zenon DEF SavedPC
      <3> QED
        BY <1>1, <3>1, <3>2, Zenon
    <2>5. Sound(r, Kept(instr, before, kept))
      <3> HIDE DEF next
      <3>1. Sound(Jump(PushPC(next), ADDR16), SavedPC(next, next.PC) \o kept)
        BY <1>1, <1>2, JSREffect
      <3> QED
        BY <2>2, <2>4, <3>1, Zenon
    <2> HIDE DEF r
    <2>6. End(5, r)
      BY <1>8 DEF r
    <2> QED
      BY <1>1, <2>1, <2>3, <2>5, <2>6, EndStep
  <1> QED
    BY <1>4, <1>5, <1>6, <1>7, <1>8 DEF JSR

(* The staged RTS.                                                          *)
LEMMA RTSStep ==
  ASSUME IInv, RTS
  PROVE  IInv' /\ (instr' = "none" => cpu' = static_RTS(Opcode))
  <1> DEFINE popped == Pop(Opcode)
             twice == Pop(popped)
  <1>1. /\ instr = "RTS" /\ RTSProgress /\ Top({"lo"}, kept)
        /\ cpu \in State /\ ADDR16 \in Addr /\ BYTE \in Cell
    BY DEF IInv, Progress, TypeOK, RTS, Allowed, Interrupts
  <1>2. Opcode \in State /\ Sound(Opcode, kept)
    BY OpcodeFacts
  <1>3. /\ Sound(static_RTS(Opcode), SubSeq(kept, 3, Len(kept)))
        /\ Popped(Opcode).byte \in Byte /\ Popped(popped).byte \in Byte
        /\ popped \in State /\ twice \in State
    BY <1>1, <1>2, RTSEffect, PopFacts
  <1>4. CASE Call(1, Pop(cpu), <<0, Popped(cpu).byte>>, BYTE)
    <2>1. /\ cycle = 1 /\ cycle' = 2 /\ cpu' = Pop(cpu) /\ ADDR16' = <<0, Popped(cpu).byte>>
          /\ instr' = instr /\ before' = before
      BY <1>4 DEF Call
    <2>2. cpu = Opcode /\ Opcode' = Opcode
      BY <1>1, <2>1 DEF RTSProgress, At, Opcode
    <2>3. RTSProgress'
      BY <2>1, <2>2 DEF RTSProgress, At
    <2>4. Progress'
      BY <1>1, <2>1, <2>3 DEF Progress, Interrupts, Pushes, Pulls, Indirect, Branches, OneCall
    <2>5. <<0, Popped(cpu).byte>> \in Addr /\ Pop(cpu) \in State
      BY <1>1, <1>3, <2>2, AddrFacts, PopFacts DEF Addr
    <2> QED
      BY <1>1, <1>4, <2>1, <2>4, <2>5, CallStep
  <1>5. CASE Call(2, cpu, ADDR16, BYTE)
    <2>1. /\ cycle = 2 /\ cycle' = 3 /\ cpu' = cpu /\ ADDR16' = ADDR16
          /\ instr' = instr /\ before' = before
      BY <1>5 DEF Call
    <2>2. cpu = popped /\ ADDR16 = <<0, Popped(Opcode).byte>> /\ Opcode' = Opcode
      BY <1>1, <2>1 DEF RTSProgress, At, Opcode
    <2>3. RTSProgress'
      BY <2>1, <2>2 DEF RTSProgress, At
    <2>4. Progress'
      BY <1>1, <2>1, <2>3 DEF Progress, Interrupts, Pushes, Pulls, Indirect, Branches, OneCall
    <2> QED
      BY <1>1, <1>5, <2>1, <2>4, CallStep
  <1>6. CASE Call(3, Pop(cpu), <<Popped(cpu).byte, Lo(ADDR16)>>, BYTE)
    <2>1. /\ cycle = 3 /\ cycle' = 4 /\ cpu' = Pop(cpu)
          /\ ADDR16' = <<Popped(cpu).byte, Lo(ADDR16)>> /\ instr' = instr /\ before' = before
      BY <1>6 DEF Call
    <2>2. cpu = popped /\ ADDR16 = <<0, Popped(Opcode).byte>> /\ Opcode' = Opcode
      BY <1>1, <2>1 DEF RTSProgress, At, Opcode
    <2>3. Lo(ADDR16) = Popped(Opcode).byte
      BY <2>2 DEF Lo
    <2>4. RTSProgress'
      BY <2>1, <2>2, <2>3 DEF RTSProgress, At
    <2>5. Progress'
      BY <1>1, <2>1, <2>4 DEF Progress, Interrupts, Pushes, Pulls, Indirect, Branches, OneCall
    <2>6. <<Popped(cpu).byte, Lo(ADDR16)>> \in Addr /\ Pop(cpu) \in State
      BY <1>1, <1>3, <2>2, <2>3, PopFacts DEF Addr
    <2> QED
      BY <1>1, <1>6, <2>1, <2>5, <2>6, CallStep
  <1>7. CASE Call(4, cpu, ADDR16, BYTE)
    <2>1. /\ cycle = 4 /\ cycle' = 5 /\ cpu' = cpu /\ ADDR16' = ADDR16
          /\ instr' = instr /\ before' = before
      BY <1>7 DEF Call
    <2>2. cpu = twice /\ ADDR16 = <<Popped(popped).byte, Popped(Opcode).byte>> /\ Opcode' = Opcode
      BY <1>1, <2>1 DEF RTSProgress, At, Opcode
    <2>3. RTSProgress'
      BY <2>1, <2>2 DEF RTSProgress, At
    <2>4. Progress'
      BY <1>1, <2>1, <2>3 DEF Progress, Interrupts, Pushes, Pulls, Indirect, Branches, OneCall
    <2> QED
      BY <1>1, <1>7, <2>1, <2>4, CallStep
  <1>8. CASE End(5, Jump(cpu, ADDR16))
    <2> DEFINE r == Jump(cpu, ADDR16)
    <2>1. cycle = 5 /\ cpu' = r
      BY <1>8 DEF End
    <2>2. cpu = twice /\ ADDR16 = <<Popped(popped).byte, Popped(Opcode).byte>>
      BY <1>1, <2>1 DEF RTSProgress, At
    <2>3. r = static_RTS(Opcode)
      BY <2>2 DEF static_RTS
    <2>4. Kept(instr, before, kept) = SubSeq(kept, 3, Len(kept))
      BY <1>1, KeptFacts
    <2>5. Sound(r, Kept(instr, before, kept))
      BY <1>3, <2>3, <2>4, Zenon
    <2> HIDE DEF r
    <2>6. End(5, r)
      BY <1>8 DEF r
    <2> QED
      BY <1>1, <2>1, <2>3, <2>5, <2>6, EndStep
  <1> QED
    BY <1>4, <1>5, <1>6, <1>7, <1>8 DEF RTS

(* The staged PHA, PHX and PHY.                                             *)
LEMMA PHStep ==
  ASSUME IInv, PH
  PROVE  IInv' /\ (instr' = "none" => cpu' = static_PH(Opcode, Register(instr)))
  <1> DEFINE n == Opcode[Register(instr)]
  <1>1. /\ instr \in Pushes /\ instr # "none" /\ instr # "PHP" /\ PushProgress /\ Room(1, kept)
        /\ cpu \in State /\ ADDR16 \in Addr /\ BYTE \in Cell
    BY DEF IInv, Progress, TypeOK, PH, Allowed, Pushes
  <1>2. Opcode \in State /\ Sound(Opcode, kept) /\ Opcode.SP = before.SP
    BY OpcodeFacts
  <1>3. n = before[Register(instr)]
    <2>1. Opcode.A = before.A /\ Opcode.X = before.X /\ Opcode.Y = before.Y
      BY OpcodeFacts, FetchedFacts DEF Opcode
    <2>2. Register(instr) = "A" \/ Register(instr) = "X" \/ Register(instr) = "Y"
      BY DEF Register
    <2>3. CASE Register(instr) = "A"
      BY <2>1, <2>3
    <2>4. CASE Register(instr) = "X"
      BY <2>1, <2>4
    <2>5. CASE Register(instr) = "Y"
      BY <2>1, <2>5
    <2> QED
      BY <2>2, <2>3, <2>4, <2>5
  <1>4. /\ Num(n) \in Cell
        /\ Sound(Push(Opcode, Num(n)), <<Entry("num", Num(n), Opcode.SP)>> \o kept)
    BY <1>1, <1>2, PHEffect
  <1>5. CASE Call(1, cpu, ADDR16, Num(cpu[Register(instr)]))
    <2>1. /\ cycle = 1 /\ cycle' = 2 /\ cpu' = cpu /\ BYTE' = Num(cpu[Register(instr)])
          /\ instr' = instr /\ before' = before
      BY <1>5 DEF Call
    <2>2. cpu = Opcode /\ Opcode' = Opcode
      BY <1>1, <2>1 DEF PushProgress, At, Opcode
    <2>3. BYTE' = Num(before[Register(instr)])
      BY <1>3, <2>1, <2>2
    <2>4. PushProgress'
      BY <1>1, <2>1, <2>2, <2>3 DEF PushProgress, At
    <2>5. Progress'
      BY <1>1, <2>1, <2>4 DEF Progress, Interrupts, Pushes, Pulls, Indirect, Branches, OneCall
    <2>6. Num(cpu[Register(instr)]) \in Cell
      BY <1>4, <2>2
    <2> QED
      BY <1>1, <1>5, <2>1, <2>5, <2>6, CallStep
  <1>6. CASE End(2, Push(cpu, BYTE))
    <2>1. cycle = 2 /\ cpu' = Push(cpu, BYTE)
      BY <1>6 DEF End
    <2>2. cpu = Opcode /\ BYTE = Num(n)
      BY <1>1, <1>3, <2>1 DEF PushProgress, At
    <2>3. Kept(instr, before, kept) = <<Entry("num", Num(n), Opcode.SP)>> \o kept
      <3>1. Kept(instr, before, kept)
              = <<Entry("num", Num(before[Register(instr)]), before.SP)>> \o kept
        BY <1>1, KeptFacts
      <3> QED
        BY <1>2, <1>3, <3>1, Zenon
    <2>4. Sound(Push(cpu, BYTE), Kept(instr, before, kept))
      BY <1>4, <2>2, <2>3, Zenon
    <2>5. cpu' = static_PH(Opcode, Register(instr))
      BY <2>1, <2>2 DEF static_PH
    <2> QED
      BY <1>1, <1>6, <2>4, <2>5, EndStep
  <1> QED
    BY <1>5, <1>6 DEF PH

(* The staged PHP.                                                          *)
LEMMA PHPStep ==
  ASSUME IInv, PHP
  PROVE  IInv' /\ (instr' = "none" => cpu' = static_PHP(Opcode))
  <1> DEFINE cell == Status(Opcode.SR \cup Marks)
  <1>1. /\ instr = "PHP" /\ PushProgress /\ Room(1, kept)
        /\ cpu \in State /\ ADDR16 \in Addr /\ BYTE \in Cell
    BY DEF IInv, Progress, TypeOK, PHP, Allowed, Pushes
  <1>2. Opcode \in State /\ Sound(Opcode, kept) /\ Opcode.SP = before.SP /\ Opcode.SR = before.SR
    BY OpcodeFacts
  <1>3. /\ cell \in Cell
        /\ Sound(Push(Opcode, cell), <<Entry("php", Status(Opcode.SR), Opcode.SP)>> \o kept)
    BY <1>1, <1>2, PHPEffect
  <1>4. CASE Call(1, cpu, ADDR16, Status(cpu.SR \cup {"B", "IGN"}))
    <2>1. /\ cycle = 1 /\ cycle' = 2 /\ cpu' = cpu /\ BYTE' = Status(cpu.SR \cup {"B", "IGN"})
          /\ instr' = instr /\ before' = before
      BY <1>4 DEF Call
    <2>2. cpu = Opcode /\ Opcode' = Opcode
      BY <1>1, <2>1 DEF PushProgress, At, Opcode
    <2>3. BYTE' = Status(before.SR \cup Marks) /\ Status(cpu.SR \cup {"B", "IGN"}) \in Cell
      BY <1>2, <1>3, <2>1, <2>2 DEF Marks
    <2>4. PushProgress'
      BY <1>1, <2>1, <2>2, <2>3 DEF PushProgress, At
    <2>5. Progress'
      BY <1>1, <2>1, <2>4 DEF Progress, Interrupts, Pushes, Pulls, Indirect, Branches, OneCall
    <2> QED
      BY <1>1, <1>4, <2>1, <2>3, <2>5, CallStep
  <1>5. CASE End(2, Push(cpu, BYTE))
    <2>1. cycle = 2 /\ cpu' = Push(cpu, BYTE)
      BY <1>5 DEF End
    <2>2. cpu = Opcode /\ BYTE = cell
      BY <1>1, <1>2, <2>1 DEF PushProgress, At
    <2>3. Kept(instr, before, kept) = <<Entry("php", Status(Opcode.SR), Opcode.SP)>> \o kept
      <3>1. Kept("PHP", before, kept) = <<Entry("php", Status(before.SR), before.SP)>> \o kept
        BY KeptFacts
      <3> QED
        BY <1>1, <1>2, <3>1, Zenon
    <2>4. Sound(Push(cpu, BYTE), Kept(instr, before, kept))
      BY <1>3, <2>2, <2>3, Zenon
    <2>5. cpu' = static_PHP(Opcode)
      BY <2>1, <2>2 DEF static_PHP, Marks
    <2> QED
      BY <1>1, <1>5, <2>4, <2>5, EndStep
  <1> QED
    BY <1>4, <1>5 DEF PHP

(* The staged PLA, PLX and PLY.                                             *)
LEMMA PLStep ==
  ASSUME IInv, PL
  PROVE  IInv' /\ (instr' = "none" => cpu' = static_PL(Opcode, Register(instr)))
  <1> DEFINE v == Popped(Opcode).byte
             set == [Pop(Opcode) EXCEPT ![Register(instr)] = v]
  <1>1. /\ instr \in Pulls /\ instr # "none" /\ PullProgress /\ Top({"num"}, kept)
        /\ cpu \in State /\ ADDR16 \in Addr /\ BYTE \in Cell
    BY DEF IInv, Progress, TypeOK, PL, Allowed, Pulls
  <1>2. Opcode \in State /\ Sound(Opcode, kept)
    BY OpcodeFacts
  <1>3. /\ set \in State /\ set[Register(instr)] = v
        /\ Sound(static_PL(Opcode, Register(instr)), Tail(kept))
        /\ static_PL(Opcode, Register(instr)) = DidSet(set, v)
    <2>1. set \in State /\ set[Register(instr)] = v
      BY <1>1, <1>2, PulledFacts
    <2> QED
      BY <1>1, <1>2, <2>1, PLEffect DEF static_PL
  <1>4. CASE Call(1, Pop(cpu), ADDR16, Popped(cpu))
    <2>1. /\ cycle = 1 /\ cycle' = 2 /\ cpu' = Pop(cpu) /\ BYTE' = Popped(cpu)
          /\ instr' = instr /\ before' = before
      BY <1>4 DEF Call
    <2>2. cpu = Opcode /\ Opcode' = Opcode
      BY <1>1, <2>1 DEF PullProgress, At, Opcode
    <2>3. PullProgress'
      BY <2>1, <2>2 DEF PullProgress, At
    <2>4. Progress'
      BY <1>1, <2>1, <2>3 DEF Progress, Interrupts, Pushes, Pulls, Indirect, Branches, OneCall
    <2> QED
      BY <1>1, <1>4, <2>1, <2>4, PopFacts, CallStep
  <1>5. CASE Call(2, [cpu EXCEPT ![Register(instr)] = BYTE.byte], ADDR16, BYTE)
    <2>1. /\ cycle = 2 /\ cycle' = 3 /\ cpu' = [cpu EXCEPT ![Register(instr)] = BYTE.byte]
          /\ instr' = instr /\ before' = before
      BY <1>5 DEF Call
    <2>2. cpu = Pop(Opcode) /\ BYTE = Popped(Opcode) /\ Opcode' = Opcode
      BY <1>1, <2>1 DEF PullProgress, At, Opcode
    <2>3. [cpu EXCEPT ![Register(instr)] = BYTE.byte] = set
      BY <2>2
    <2>4. PullProgress'
      BY <2>1, <2>2, <2>3 DEF PullProgress, At
    <2>5. Progress'
      BY <1>1, <2>1, <2>4 DEF Progress, Interrupts, Pushes, Pulls, Indirect, Branches, OneCall
    <2>6. Call(2, set, ADDR16, BYTE)
      BY <1>5, <2>3
    <2> HIDE DEF set
    <2> QED
      BY <1>1, <1>3, <2>1, <2>5, <2>6, CallStep
  <1>6. CASE End(3, DidSet(cpu, cpu[Register(instr)]))
    <2>1. cycle = 3 /\ cpu' = DidSet(cpu, cpu[Register(instr)])
      BY <1>6 DEF End
    <2>2. cpu = set
      BY <1>1, <2>1 DEF PullProgress, At
    <2>3. DidSet(cpu, cpu[Register(instr)]) = static_PL(Opcode, Register(instr))
      BY <1>3, <2>2, Zenon
    <2>4. Kept(instr, before, kept) = Tail(kept)
      BY <1>1 DEF Kept, Interrupts, Pushes, Pulls
    <2>5. Sound(DidSet(cpu, cpu[Register(instr)]), Kept(instr, before, kept))
      BY <1>3, <2>3, <2>4, Zenon
    <2> QED
      BY <1>1, <1>6, <2>1, <2>3, <2>5, EndStep
  <1> QED
    BY <1>4, <1>5, <1>6 DEF PL

(* The staged PLP.                                                          *)
LEMMA PLPStep ==
  ASSUME IInv, PLP
  PROVE  IInv' /\ (instr' = "none" => cpu' = static_PLP(Opcode))
  <1> DEFINE popped == Pop(Opcode)
             status == Unmarked(Popped(Opcode).status)
  <1>1. /\ instr = "PLP" /\ PLPProgress /\ Top({"php"}, kept)
        /\ cpu \in State /\ ADDR16 \in Addr /\ BYTE \in Cell
    BY DEF IInv, Progress, TypeOK, PLP, Allowed, Interrupts
  <1>2. Opcode \in State /\ Sound(Opcode, kept)
    BY OpcodeFacts
  <1>3. Sound(static_PLP(Opcode), Tail(kept)) /\ status \in SUBSET Bits
    BY <1>1, <1>2, PLPEffect
  <1>4. CASE Call(1, Pop(cpu), ADDR16, Popped(cpu))
    <2>1. /\ cycle = 1 /\ cycle' = 2 /\ cpu' = Pop(cpu) /\ BYTE' = Popped(cpu)
          /\ instr' = instr /\ before' = before
      BY <1>4 DEF Call
    <2>2. cpu = Opcode /\ Opcode' = Opcode
      BY <1>1, <2>1 DEF PLPProgress, At, Opcode
    <2>3. PLPProgress'
      BY <2>1, <2>2 DEF PLPProgress, At
    <2>4. Progress'
      BY <1>1, <2>1, <2>3 DEF Progress, Interrupts, Pushes, Pulls, Indirect, Branches, OneCall
    <2> QED
      BY <1>1, <1>4, <2>1, <2>4, PopFacts, CallStep
  <1>5. CASE Call(2, cpu, ADDR16, Status(Unmarked(BYTE.status)))
    <2>1. /\ cycle = 2 /\ cycle' = 3 /\ cpu' = cpu /\ BYTE' = Status(Unmarked(BYTE.status))
          /\ instr' = instr /\ before' = before
      BY <1>5 DEF Call
    <2>2. cpu = popped /\ BYTE = Popped(Opcode) /\ Opcode' = Opcode
      BY <1>1, <2>1 DEF PLPProgress, At, Opcode
    <2>3. PLPProgress'
      BY <2>1, <2>2 DEF PLPProgress, At
    <2>4. Progress'
      BY <1>1, <2>1, <2>3 DEF Progress, Interrupts, Pushes, Pulls, Indirect, Branches, OneCall
    <2>5. Status(Unmarked(BYTE.status)) \in Cell
      BY <1>3, <2>2, CellFacts
    <2> QED
      BY <1>1, <1>5, <2>1, <2>4, <2>5, CallStep
  <1>6. CASE End(3, [cpu EXCEPT !.SR = BYTE.status])
    <2> DEFINE r == [cpu EXCEPT !.SR = BYTE.status]
    <2>1. cycle = 3 /\ cpu' = r
      BY <1>6 DEF End
    <2>2. cpu = popped /\ BYTE = Status(status)
      BY <1>1, <2>1 DEF PLPProgress, At
    <2>3. r = static_PLP(Opcode)
      BY <2>2 DEF static_PLP, Status
    <2>4. Kept(instr, before, kept) = Tail(kept)
      BY <1>1 DEF Kept, Interrupts, Pushes, Pulls
    <2>5. Sound(r, Kept(instr, before, kept))
      BY <1>3, <2>3, <2>4, Zenon
    <2> HIDE DEF r
    <2>6. End(3, r)
      BY <1>6 DEF r
    <2> QED
      BY <1>1, <2>1, <2>3, <2>5, <2>6, EndStep
  <1> QED
    BY <1>4, <1>5, <1>6 DEF PLP

(* A jump does not depend on where PC was.                                  *)
LEMMA JumpOver ==
  ASSUME NEW s \in State, NEW p
  PROVE  Jump(Fetched(s), p) = Jump(s, p)
  BY DEF Jump, Fetched, State

(* The calls all jumps have in common, which read the operand.              *)
LEMMA JMPStep ==
  ASSUME IInv, JMP
  PROVE  IInv' /\ (instr' = "none" => instr = "JMP" /\ cpu' = static_JMP(Opcode))
  <1>1. /\ instr \in {"JMP"} \cup Indirect /\ instr # "none" /\ JMPProgress
        /\ cpu \in State /\ ADDR16 \in Addr /\ BYTE \in Cell
    BY DEF IInv, Progress, TypeOK, JMP, Indirect
  <1>2. /\ Opcode \in State /\ Operand \in State /\ Sound(Operand, kept)
        /\ Opcode.PC \in Addr /\ Operand.PC = Inc(Opcode.PC) /\ Operand.PC \in Addr
    BY OpcodeFacts, Zenon
  <1>3. CASE Call(1, Fetched(cpu), Low(cpu.PC), BYTE)
    <2>1. /\ cycle = 1 /\ cycle' = 2 /\ cpu' = Fetched(cpu) /\ ADDR16' = Low(cpu.PC)
          /\ instr' = instr /\ before' = before
      BY <1>3 DEF Call
    <2>2. cpu = Opcode /\ Opcode' = Opcode /\ Operand' = Operand
      BY <1>1, <2>1 DEF JMPProgress, At, Opcode, Operand
    <2>3. Fetched(cpu) = Operand
      BY <2>2 DEF Operand
    <2>4. JMPProgress'
      BY <2>1, <2>2, <2>3 DEF JMPProgress, At
    <2>5. Progress'
      BY <1>1, <2>1, <2>4 DEF Progress, Interrupts, Pushes, Pulls, Indirect, Branches, OneCall
    <2>6. Fetched(cpu) \in State /\ Low(cpu.PC) \in Addr
      BY <1>1, <1>2, <2>2, FetchedFacts, AddrFacts
    <2> QED
      BY <1>1, <1>3, <2>1, <2>5, <2>6, CallStep
  <1>4. CASE instr # "JMP" /\ Call(2, Fetched(cpu), WithHigh(cpu.PC), BYTE)
    <2>1. /\ cycle = 2 /\ cycle' = 3 /\ cpu' = Fetched(cpu) /\ ADDR16' = WithHigh(cpu.PC)
          /\ instr' = instr /\ before' = before
      BY <1>4 DEF Call
    <2>2. cpu = Operand /\ ADDR16 = Low(Opcode.PC) /\ Opcode' = Opcode /\ Operand' = Operand
      BY <1>1, <2>1 DEF JMPProgress, At, Opcode, Operand
    <2>3. WithHigh(cpu.PC) = Word(Opcode.PC)
      BY <1>2, <2>2 DEF WithHigh, Low, Lo, Word
    <2>4. JMPProgress'
      BY <1>4, <2>1, <2>2, <2>3 DEF JMPProgress, At
    <2>5. Progress'
      BY <1>1, <2>1, <2>4 DEF Progress, Interrupts, Pushes, Pulls, Indirect, Branches, OneCall
    <2>6. Fetched(cpu) \in State /\ WithHigh(cpu.PC) \in Addr
      BY <1>1, <1>2, <2>3, FetchedFacts, AddrFacts
    <2> QED
      BY <1>1, <1>4, <2>1, <2>5, <2>6, CallStep
  <1>5. CASE instr = "JMP" /\ End(2, Jump(cpu, WithHigh(cpu.PC)))
    <2> DEFINE r == Jump(cpu, WithHigh(cpu.PC))
    <2>1. cycle = 2 /\ cpu' = r
      BY <1>5 DEF End
    <2>2. cpu = Operand /\ ADDR16 = Low(Opcode.PC)
      BY <1>1, <2>1 DEF JMPProgress, At
    <2>3. WithHigh(cpu.PC) = Word(Opcode.PC)
      BY <1>2, <2>2 DEF WithHigh, Low, Lo, Word
    <2>4. r = static_JMP(Opcode)
      BY <1>2, <2>2, <2>3, JumpOver DEF static_JMP, Operand
    <2>5. Sound(r, Kept(instr, before, kept))
      <3>1. Word(Opcode.PC) \in Addr
        BY <1>2, AddrFacts
      <3>2. Sound(r, kept)
        BY <1>2, <2>2, <2>3, <3>1, JumpEffect
      <3>3. Kept(instr, before, kept) = kept
        BY <1>5 DEF Kept, Interrupts, Pushes, Pulls
      <3> QED
        BY <3>2, <3>3, Zenon
    <2> HIDE DEF r
    <2>6. End(2, r)
      BY <1>5 DEF r
    <2> QED
      BY <1>1, <1>5, <2>1, <2>4, <2>5, <2>6, EndStep
  <1> QED
    BY <1>3, <1>4, <1>5 DEF JMP

(* The end of the indirect jump, with the 6502's wrap within the page.      *)
LEMMA IndirectStep ==
  ASSUME IInv, JMP_indirect
  PROVE  IInv' /\ (instr' = "none" => cpu' = static_JMP_indirect(Opcode))
  <1> DEFINE next == Fetched(Operand)
             p == Word(Opcode.PC)
  <1>1. /\ instr = "JMP_indirect" /\ JMPProgress
        /\ cpu \in State /\ ADDR16 \in Addr /\ BYTE \in Cell
    BY DEF IInv, Progress, TypeOK, JMP_indirect, Indirect
  <1>2. /\ Opcode \in State /\ Operand \in State /\ next \in State /\ Sound(next, kept)
        /\ p \in Addr /\ next.isa = before.isa /\ Opcode.isa = before.isa
        /\ before \in State
    BY OpcodeFacts, AddrFacts
  <1>3. Pointer(before, p) = Pointer(Opcode, p) /\ Pointer(next, p) = Pointer(before, p)
    BY <1>2 DEF Pointer
  <1>4. ROM[p] \in Byte /\ Num(ROM[p]) \in Cell /\ Pointer(before, p) \in Addr
        /\ ROM[Pointer(before, p)] \in Byte
    <2> HIDE DEF p
    <2> QED
      BY <1>2, AddrFacts, CellFacts
  <1>5. CASE Call(3, cpu, Pointer(cpu, ADDR16), Num(ROM[ADDR16]))
    <2>1. /\ cycle = 3 /\ cycle' = 4 /\ cpu' = cpu /\ ADDR16' = Pointer(cpu, ADDR16)
          /\ BYTE' = Num(ROM[ADDR16]) /\ instr' = instr /\ before' = before
      BY <1>5 DEF Call
    <2>2. cpu = next /\ ADDR16 = p /\ Opcode' = Opcode /\ Operand' = Operand
      BY <1>1, <2>1 DEF JMPProgress, At, Opcode, Operand
    <2>3. Pointer(cpu, ADDR16) = Pointer(before, p)
      BY <1>3, <2>2
    <2>4. JMPProgress'
      BY <1>1, <2>1, <2>2, <2>3 DEF JMPProgress, At
    <2>5. Progress'
      BY <1>1, <2>1, <2>4 DEF Progress, Interrupts, Pushes, Pulls, Indirect, Branches, OneCall
    <2>6. Pointer(cpu, ADDR16) \in Addr /\ Num(ROM[ADDR16]) \in Cell
      BY <1>4, <2>2, <2>3
    <2> QED
      BY <1>1, <1>5, <2>1, <2>5, <2>6, CallStep
  <1>6. CASE End(4, Jump(cpu, <<ROM[ADDR16], BYTE.byte>>))
    <2> DEFINE r == Jump(cpu, <<ROM[ADDR16], BYTE.byte>>)
               q == <<ROM[Pointer(Opcode, p)], ROM[p]>>
    <2>1. cycle = 4 /\ cpu' = r
      BY <1>6 DEF End
    <2>2. cpu = next /\ ADDR16 = Pointer(before, p) /\ BYTE = Num(ROM[p])
      BY <1>1, <2>1 DEF JMPProgress, At
    <2>3. <<ROM[ADDR16], BYTE.byte>> = q
      BY <1>3, <2>2 DEF Num
    <2>4. q \in Addr
      BY <1>3, <1>4 DEF Addr
    <2>5. static_JMP_indirect(Opcode) = Jump(Opcode, q)
      BY DEF static_JMP_indirect
    <2> HIDE DEF q, p
    <2>6. r = Jump(next, q) /\ Jump(next, q) = Jump(Opcode, q)
      BY <1>2, <2>2, <2>3, JumpOver DEF Operand
    <2>7. Sound(r, Kept(instr, before, kept))
      <3> HIDE DEF next
      <3>1. Sound(Jump(next, q), kept)
        BY <1>2, <2>4, JumpEffect
      <3>2. Kept(instr, before, kept) = kept
        BY <1>1 DEF Kept, Interrupts, Pushes, Pulls
      <3> QED
        BY <2>6, <3>1, <3>2, Zenon
    <2> HIDE DEF r
    <2>8. End(4, r)
      BY <1>6 DEF r
    <2> QED
      BY <1>1, <2>1, <2>5, <2>6, <2>7, <2>8, EndStep
  <1> QED
    BY <1>5, <1>6 DEF JMP_indirect

(* The end of the 65C02's indexed indirect jump.                            *)
LEMMA IndexedStep ==
  ASSUME IInv, JMP_indexed
  PROVE  IInv' /\ (instr' = "none" => cpu' = static_JMP_indexed(Opcode))
  <1> DEFINE next == Fetched(Operand)
             p == Word(Opcode.PC)
             x == Plus(p, before.X)
  <1>1. /\ instr = "JMP_indexed" /\ JMPProgress
        /\ cpu \in State /\ ADDR16 \in Addr /\ BYTE \in Cell
    BY DEF IInv, Progress, TypeOK, JMP_indexed, Indirect
  <1>2. /\ Opcode \in State /\ Operand \in State /\ next \in State /\ Sound(next, kept)
        /\ p \in Addr /\ next.X = before.X /\ Opcode.X = before.X
    BY OpcodeFacts, AddrFacts
  <1>3. x \in Addr
    <2>1. before.X \in Byte
      BY OpcodeFacts DEF State
    <2> HIDE DEF p
    <2> QED
      BY <1>2, <2>1, AddrFacts
  <1>4. ROM[x] \in Byte /\ Num(ROM[x]) \in Cell /\ Inc(x) \in Addr /\ Word(x) \in Addr
    <2> HIDE DEF x
    <2> QED
      BY <1>3, AddrFacts, CellFacts
  <1>5. CASE Call(3, cpu, Plus(ADDR16, cpu.X), BYTE)
    <2>1. /\ cycle = 3 /\ cycle' = 4 /\ cpu' = cpu /\ ADDR16' = Plus(ADDR16, cpu.X)
          /\ instr' = instr /\ before' = before
      BY <1>5 DEF Call
    <2>2. cpu = next /\ ADDR16 = p /\ Opcode' = Opcode /\ Operand' = Operand
      BY <1>1, <2>1 DEF JMPProgress, At, Opcode, Operand
    <2>3. Plus(ADDR16, cpu.X) = x
      BY <1>2, <2>2
    <2>4. JMPProgress'
      BY <1>1, <2>1, <2>2, <2>3 DEF JMPProgress, At
    <2>5. Progress'
      BY <1>1, <2>1, <2>4 DEF Progress, Interrupts, Pushes, Pulls, Indirect, Branches, OneCall
    <2>6. Plus(ADDR16, cpu.X) \in Addr
      BY <1>3, <2>3
    <2> QED
      BY <1>1, <1>5, <2>1, <2>5, <2>6, CallStep
  <1>6. CASE Call(4, cpu, Inc(ADDR16), Num(ROM[ADDR16]))
    <2>1. /\ cycle = 4 /\ cycle' = 5 /\ cpu' = cpu /\ ADDR16' = Inc(ADDR16)
          /\ BYTE' = Num(ROM[ADDR16]) /\ instr' = instr /\ before' = before
      BY <1>6 DEF Call
    <2>2. cpu = next /\ ADDR16 = x /\ Opcode' = Opcode /\ Operand' = Operand
      BY <1>1, <2>1 DEF JMPProgress, At, Opcode, Operand
    <2>3. JMPProgress'
      BY <1>1, <2>1, <2>2 DEF JMPProgress, At
    <2>4. Progress'
      BY <1>1, <2>1, <2>3 DEF Progress, Interrupts, Pushes, Pulls, Indirect, Branches, OneCall
    <2>5. Inc(ADDR16) \in Addr /\ Num(ROM[ADDR16]) \in Cell
      BY <1>4, <2>2
    <2> QED
      BY <1>1, <1>6, <2>1, <2>4, <2>5, CallStep
  <1>7. CASE End(5, Jump(cpu, <<ROM[ADDR16], BYTE.byte>>))
    <2> DEFINE r == Jump(cpu, <<ROM[ADDR16], BYTE.byte>>)
    <2>1. cycle = 5 /\ cpu' = r
      BY <1>7 DEF End
    <2>2. cpu = next /\ ADDR16 = Inc(x) /\ BYTE = Num(ROM[x])
      BY <1>1, <2>1 DEF JMPProgress, At
    <2>3. <<ROM[ADDR16], BYTE.byte>> = Word(x)
      BY <2>2 DEF Num, Word
    <2>4. static_JMP_indexed(Opcode) = Jump(Opcode, Word(x))
      BY <1>2 DEF static_JMP_indexed
    <2> HIDE DEF x, p
    <2>5. r = Jump(next, Word(x)) /\ Jump(next, Word(x)) = Jump(Opcode, Word(x))
      BY <1>2, <2>2, <2>3, JumpOver DEF Operand
    <2>6. Sound(r, Kept(instr, before, kept))
      <3> HIDE DEF next
      <3>1. Sound(Jump(next, Word(x)), kept)
        BY <1>2, <1>4, JumpEffect
      <3>2. Kept(instr, before, kept) = kept
        BY <1>1 DEF Kept, Interrupts, Pushes, Pulls
      <3> QED
        BY <2>5, <3>1, <3>2, Zenon
    <2> HIDE DEF r
    <2>7. End(5, r)
      BY <1>7 DEF r
    <2> QED
      BY <1>1, <2>1, <2>4, <2>5, <2>6, <2>7, EndStep
  <1> QED
    BY <1>5, <1>6, <1>7 DEF JMP_indexed

(* A branch: wherever it goes, the stack and the flags are as they were.    *)
LEMMA BranchStep ==
  ASSUME IInv, Branch
  PROVE  IInv'
  <1> DEFINE target == Plus(cpu.PC, Signed(BYTE.byte))
  <1>1. /\ instr \in Branches /\ instr # "none" /\ BranchProgress
        /\ cpu \in State /\ ADDR16 \in Addr /\ BYTE \in Cell
    BY DEF IInv, Progress, TypeOK, Branch, Branches
  <1>2. /\ Opcode \in State /\ Operand \in State /\ Sound(Opcode, kept) /\ Sound(Operand, kept)
        /\ Opcode.PC \in Addr /\ Operand.PC \in Addr
    BY OpcodeFacts, Zenon
  <1>3. Sound(cpu, kept) /\ cpu.PC \in Addr
    BY <1>1, <1>2 DEF BranchProgress, At
  <1>4. Kept(instr, before, kept) = kept
    BY <1>1 DEF Kept, Interrupts, Pushes, Pulls, Branches
  <1>5. cycle = 2 => target \in Addr
    <2> SUFFICES ASSUME cycle = 2 PROVE target \in Addr
      OBVIOUS
    <2>1. BYTE = Num(ROM[Opcode.PC])
      BY <1>1 DEF BranchProgress, At
    <2>2. BYTE.byte \in Byte
      BY <1>2, <2>1, AddrFacts DEF Num
    <2> QED
      BY <1>3, <2>2, AddrFacts
  <1> HIDE DEF target
  <1>6. CASE End(cycle, Fetched(cpu))
    <2>1. Sound(Fetched(cpu), Kept(instr, before, kept))
      BY <1>3, <1>4, FetchedSound
    <2> QED
      BY <1>1, <1>6, <2>1, EndStep
  <1>7. CASE Call(1, Fetched(cpu), ADDR16, Num(ROM[cpu.PC]))
    <2>1. /\ cycle = 1 /\ cycle' = 2 /\ cpu' = Fetched(cpu) /\ BYTE' = Num(ROM[cpu.PC])
          /\ instr' = instr /\ before' = before
      BY <1>7 DEF Call
    <2>2. cpu = Opcode /\ Opcode' = Opcode /\ Operand' = Operand
      BY <1>1, <2>1 DEF BranchProgress, At, Opcode, Operand
    <2>3. Fetched(cpu) = Operand
      BY <2>2 DEF Operand
    <2>4. BranchProgress'
      BY <2>1, <2>2, <2>3 DEF BranchProgress, At
    <2>5. Progress'
      BY <1>1, <2>1, <2>4 DEF Progress, Interrupts, Pushes, Pulls, Indirect, Branches, OneCall
    <2>6. Fetched(cpu) \in State /\ Num(ROM[cpu.PC]) \in Cell
      BY <1>1, <1>3, FetchedFacts, AddrFacts, CellFacts
    <2> QED
      BY <1>1, <1>7, <2>1, <2>5, <2>6, CallStep
  <1>8. CASE End(2, Jump(cpu, target))
    <2>1. cycle = 2
      BY <1>8 DEF End
    <2>2. Sound(Jump(cpu, target), Kept(instr, before, kept))
      BY <1>3, <1>4, <1>5, <2>1, JumpEffect
    <2> QED
      BY <1>1, <1>8, <2>2, EndStep
  <1>9. CASE Call(2, cpu, target, BYTE)
    <2>1. /\ cycle = 2 /\ cycle' = 3 /\ cpu' = cpu /\ ADDR16' = target
          /\ instr' = instr /\ before' = before
      BY <1>9 DEF Call
    <2>2. cpu = Operand /\ Operand' = Operand
      BY <1>1, <2>1 DEF BranchProgress, At, Opcode, Operand
    <2>3. BranchProgress'
      BY <1>5, <2>1, <2>2 DEF BranchProgress, At
    <2>4. Progress'
      BY <1>1, <2>1, <2>3 DEF Progress, Interrupts, Pushes, Pulls, Indirect, Branches, OneCall
    <2> QED
      BY <1>1, <1>5, <1>9, <2>1, <2>4, CallStep
  <1>10. CASE End(3, Jump(cpu, ADDR16))
    <2>1. Sound(Jump(cpu, ADDR16), Kept(instr, before, kept))
      BY <1>1, <1>3, <1>4, JumpEffect
    <2> QED
      BY <1>1, <1>10, <2>1, EndStep
  <1> QED
    BY <1>6, <1>7, <1>8, <1>9, <1>10 DEF Branch, target

(* The instructions of one call.                                            *)
LEMMA OneCallStep ==
  ASSUME IInv, Flag \/ Transfer
  PROVE  /\ IInv' /\ instr' = "none"
         /\ \/ instr = "CLC" /\ cpu' = CLC(Opcode)
            \/ instr = "SEC" /\ cpu' = SEC(Opcode)
            \/ instr = "CLD" /\ cpu' = CLD(Opcode)
            \/ instr = "SED" /\ cpu' = SED(Opcode)
            \/ instr = "CLI" /\ cpu' = CLI(Opcode)
            \/ instr = "SEI" /\ cpu' = SEI(Opcode)
            \/ instr = "CLV" /\ cpu' = CLV(Opcode)
            \/ instr = "TXS" /\ cpu' = TXS(Opcode)
            \/ instr = "TSX" /\ cpu' = TSX(Opcode)
  <1>1. instr \in OneCall
    BY DEF Flag, Transfer, OneCall
  <1>2. instr # "none" /\ cpu = Opcode /\ Kept(instr, before, kept) = kept
    <2>1. Kept(instr, before, kept) = kept
      BY <1>1 DEF Kept, Interrupts, Pushes, Pulls, OneCall
    <2> QED
      BY <1>1, <2>1 DEF IInv, Progress, At, OneCall
  <1>3. Sound(Opcode, kept)
    BY OpcodeFacts
  <1>4. instr = "TXS" => kept = << >>
    BY <1>2 DEF IInv, Allowed
  <1>5. ASSUME NEW s, End(1, s), Sound(s, kept) PROVE IInv' /\ instr' = "none" /\ cpu' = s
    <2>1. IInv'
      BY <1>2, <1>5, EndStep
    <2> QED
      BY <1>5, <2>1 DEF End
  <1>6. CASE Flag
    BY <1>2, <1>3, <1>5, <1>6, FlagEffect DEF Flag
  <1>7. CASE Transfer
    BY <1>2, <1>3, <1>4, <1>5, <1>7, TransferEffect DEF Transfer
  <1> QED
    BY <1>6, <1>7

(* The fetch of an opcode, or an interrupt found due.                       *)
LEMMA BeginStep ==
  ASSUME IInv, NEW op \in Ops, Begin(op)
  PROVE  IInv' /\ instr' # "none"
  <1>1. /\ instr = "none" /\ done < MaxInstr /\ Allowed(op, cpu, kept)
        /\ instr' = op /\ cycle' = 1 /\ ADDR16' = <<0, 0>> /\ BYTE' = Num(0)
        /\ cpu' = (IF op \in Interrupts THEN cpu ELSE Fetched(cpu))
        /\ before' = before /\ kept' = kept /\ done' = done
    BY DEF Begin
  <1>2. cpu = before /\ cpu \in State /\ Sound(before, kept)
    BY <1>1 DEF IInv, Progress, At, TypeOK
  <1>3. op # "none" /\ op \in AllOps
    BY OpsAssumption DEF AllOps, Interrupts, Pushes, Pulls, Indirect, Branches, OneCall
  <1>4. cpu' \in State
    BY <1>1, <1>2, FetchedFacts
  <1>5. TypeOK'
    <2>1. <<0, 0>> \in Addr /\ Num(0) \in Cell
      BY AddrFacts, CellFacts DEF Addr
    <2> QED
      BY <1>1, <1>4, <2>1 DEF IInv, TypeOK
  <1>6. CASE op \in Interrupts
    <2>1. InterruptProgress'
      BY <1>1, <1>2, <1>6 DEF InterruptProgress, At
    <2>2. Progress'
      BY <1>1, <1>6, <2>1 DEF Progress, Interrupts, Pushes, Pulls, Indirect, Branches, OneCall
    <2> QED
      BY <1>1, <1>2, <1>3, <1>5, <2>2 DEF IInv
  <1>7. CASE op \notin Interrupts
    <2>1. At(1, Opcode)'
      BY <1>1, <1>2, <1>7 DEF At, Opcode
    <2>2. /\ BRKProgress' /\ RTIProgress' /\ JSRProgress' /\ RTSProgress' /\ PushProgress'
          /\ PullProgress' /\ PLPProgress' /\ JMPProgress' /\ BranchProgress'
      BY <2>1 DEF BRKProgress, RTIProgress, JSRProgress, RTSProgress, PushProgress,
                  PullProgress, PLPProgress, JMPProgress, BranchProgress
    <2>3. Progress'
      BY <1>1, <1>3, <1>7, <2>1, <2>2 DEF Progress
    <2> QED
      BY <1>1, <1>2, <1>3, <1>5, <2>3 DEF IInv
  <1> QED
    BY <1>6, <1>7

-----------------------------------------------------------------------------
(* A program starts with nothing on its stack and no mark in its status.    *)
LEMMA Initial == Init => IInv
  <1> SUFFICES ASSUME Init PROVE IInv
    OBVIOUS
  <1>1. /\ cpu \in State /\ before = cpu /\ cpu.SR = Unmarked(cpu.SR) /\ kept = << >>
        /\ instr = "none" /\ cycle = 0 /\ done = 0 /\ ADDR16 = <<0, 0>> /\ BYTE = Num(0)
    BY StartAssumption DEF Init
  <1>2. <<0, 0>> \in Addr /\ Num(0) \in Cell
    BY AddrFacts, CellFacts DEF Addr
  <1>3. TypeOK
    BY <1>1, <1>2, MaxInstrAssumption DEF TypeOK
  <1>4. cpu.SR \cap Marks = {}
    BY <1>1 DEF Unmarked, Marks
  <1>5. Mirrors(before, kept) /\ Nested(kept)
    <2>1. Len(kept) = 0
      BY <1>1
    <2> QED
      BY <2>1, RadixAssumption DEF Mirrors, Nested
  <1>6. Progress
    BY <1>1 DEF Progress, At, Interrupts, Pushes, Pulls, Indirect, Branches, OneCall
  <1> QED
    BY <1>1, <1>3, <1>4, <1>5, <1>6 DEF IInv, Sound, TypeOK

(* Every call of every staged function keeps the invariant.                 *)
LEMMA Inductive == IInv /\ [Next]_vars => IInv'
  <1> SUFFICES ASSUME IInv, [Next]_vars PROVE IInv'
    OBVIOUS
  <1>1. CASE UNCHANGED vars
    BY <1>1 DEF vars, IInv, TypeOK, Progress, At, Opcode, Operand, InterruptProgress, BRKProgress,
                RTIProgress, JSRProgress, RTSProgress, PushProgress, PullProgress, PLPProgress,
                JMPProgress, BranchProgress
  <1>2. CASE Step
    BY <1>2, NMIStep, IRQStep, BRKStep, RTIStep, JSRStep, RTSStep, PHStep, PLStep, PHPStep,
       PLPStep, JMPStep, IndirectStep, IndexedStep, BranchStep, OneCallStep DEF Step
  <1>3. ASSUME NEW op \in Ops, Begin(op) PROVE IInv'
    BY <1>3, BeginStep
  <1> QED
    BY <1>1, <1>2, <1>3 DEF Next

(* The inductive invariant: in every call of an instruction the processor   *)
(* is a known function of where it began, and between instructions the      *)
(* stack is sound.                                                          *)
THEOREM Invariance == Spec => []IInv
  BY Initial, Inductive, PTL DEF Spec

(* Registers, the functions' statics and page one keep their types; in      *)
(* particular SP and PC stay in their widths.                               *)
THEOREM TypeCorrect == Spec => []TypeOK
  <1>1. IInv => TypeOK
    BY DEF IInv
  <1> QED
    BY <1>1, Invariance, PTL

(* Whatever balanced program runs, and whatever interrupts it, the stack    *)
(* between instructions is exactly what the program has on it.              *)
THEOREM StackIsMirrored == Spec => []StackMirrors
  <1>1. IInv => StackMirrors
    BY DEF IInv, StackMirrors, Sound, Progress, At
  <1> QED
    BY <1>1, Invariance, PTL

(* No call leaves a mark in SR: PHP and BRK put theirs into the pushed copy *)
(* only, RTI and PLP take them out first.                                   *)
LEMMA NoMarks ==
  ASSUME IInv
  PROVE  cpu.SR \cap Marks = {}
  <1>1. /\ before \in State /\ Opcode \in State /\ Operand \in State /\ Fetched(Operand) \in State
        /\ Sound(before, kept) /\ Sound(Opcode, kept) /\ Sound(Operand, kept)
        /\ Sound(Fetched(Operand), kept)
        /\ Opcode.SR = before.SR /\ Operand.SR = before.SR /\ Fetched(Operand).SR = before.SR
    BY OpcodeFacts, Zenon
  <1>2. before.SR \cap Marks = {}
    BY <1>1 DEF Sound
  <1>3. ASSUME NEW s \in State
        PROVE  /\ Push(s, Num(Hi(s.PC))).SR = s.SR /\ PushPC(s).SR = s.SR /\ PushPC(s) \in State
               /\ Pop(s).SR = s.SR /\ Pop(s) \in State
               /\ MaskIrq(s).SR \cap Marks = s.SR \cap Marks
    <2> DEFINE u == Push(s, Num(Hi(s.PC)))
    <2>1. Num(Hi(s.PC)) \in Cell /\ Num(Lo(s.PC)) \in Cell
      BY AddrFacts, CellFacts DEF State
    <2>2. u \in State /\ u.SR = s.SR
      BY <2>1, PushFacts
    <2> HIDE DEF u
    <2>3. Push(u, Num(Lo(s.PC))) \in State /\ Push(u, Num(Lo(s.PC))).SR = u.SR
      BY <2>1, <2>2, PushFacts
    <2>4. PushPC(s) = Push(u, Num(Lo(s.PC)))
      BY DEF PushPC, u
    <2> QED
      BY <2>2, <2>3, <2>4, PopFacts, MaskIrqFacts DEF u
  <1>4. ASSUME NEW s \in State, s.SR = before.SR, NEW S \in SUBSET Bits
        PROVE  /\ Push(PushPC(s), Status(S)) \in State
               /\ Push(PushPC(s), Status(S)).SR = before.SR
               /\ MaskIrq(Push(PushPC(s), Status(S))) \in State
               /\ MaskIrq(Push(PushPC(s), Status(S))).SR \cap Marks = {}
    <2>1. Status(S) \in Cell /\ PushPC(s) \in State /\ PushPC(s).SR = before.SR
      BY <1>3, <1>4, CellFacts
    <2>2. Push(PushPC(s), Status(S)) \in State /\ Push(PushPC(s), Status(S)).SR = before.SR
      BY <2>1, PushFacts
    <2> QED
      BY <1>2, <2>2, MaskIrqFacts
  <1>5. before.SR \in SUBSET Bits /\ before.SR \cup {"B"} \in SUBSET Bits
    BY <1>1 DEF State, Bits
  <1>6. CASE instr \in Interrupts
    <2>1. InterruptProgress
      BY <1>6 DEF IInv, Progress
    <2>2. MaskIrq(Push(PushPC(before), Status(before.SR))).SR \cap Marks = {}
      BY <1>1, <1>4, <1>5
    <2> QED
      BY <1>1, <1>2, <1>3, <2>1, <2>2 DEF InterruptProgress, At
  <1>7. CASE instr = "BRK"
    <2> DEFINE pushed == Push(PushPC(Operand), Status(before.SR \cup {"B"}))
    <2>1. BRKProgress
      BY <1>7 DEF IInv, Progress
    <2>2. pushed.SR = before.SR /\ MaskIrq(pushed) \in State /\ MaskIrq(pushed).SR \cap Marks = {}
      BY <1>1, <1>4, <1>5
    <2>3. Jump(MaskIrq(pushed), Low(NmiVector)).SR = MaskIrq(pushed).SR
      BY <2>2, AddrFacts, JumpFacts
    <2> QED
      BY <1>1, <1>2, <1>3, <2>1, <2>2, <2>3 DEF BRKProgress, At
  <1>8. CASE instr = "RTI"
    <2> DEFINE popped == Pop(Opcode)
               S == Unmarked(Popped(Opcode).status)
    <2>1. RTIProgress /\ Top({"sr", "brk"}, kept)
      BY <1>8 DEF IInv, Progress, Allowed
    <2>2. S \in SUBSET Bits
      BY <1>1, <2>1, RTIEffect
    <2>3. S \cap Marks = {}
      BY DEF Unmarked, Marks
    <2>4. popped \in State /\ popped.SR = before.SR /\ Pop(popped) \in State
      BY <1>1, <1>3
    <2>5. [popped EXCEPT !.SR = S].SR = S /\ [Pop(popped) EXCEPT !.SR = S].SR = S
      <3> HIDE DEF popped, S
      <3> QED
        BY <2>2, <2>4, StatusFacts
    <2> QED
      BY <1>1, <1>2, <2>1, <2>3, <2>4, <2>5 DEF RTIProgress, At
  <1>9. CASE instr = "JSR"
    <2>1. JSRProgress
      BY <1>9 DEF IInv, Progress
    <2> QED
      BY <1>1, <1>2, <1>3, <2>1 DEF JSRProgress, At
  <1>10. CASE instr = "RTS"
    <2>1. RTSProgress
      BY <1>10 DEF IInv, Progress
    <2>2. /\ Pop(Opcode) \in State /\ Pop(Opcode).SR = before.SR
          /\ Pop(Pop(Opcode)).SR = before.SR
      BY <1>1, PopFacts
    <2> QED
      BY <1>1, <1>2, <2>1, <2>2 DEF RTSProgress, At
  <1>11. CASE instr \in Pushes \cup {"PHP"}
    <2>1. PushProgress
      BY <1>11 DEF IInv, Progress
    <2> QED
      BY <1>1, <1>2, <2>1 DEF PushProgress, At
  <1>12. CASE instr \in Pulls
    <2>1. PullProgress /\ Top({"num"}, kept)
      BY <1>12 DEF IInv, Progress, Allowed, Pulls
    <2>2. [Pop(Opcode) EXCEPT ![Register(instr)] = Popped(Opcode).byte].SR = Pop(Opcode).SR
      BY <1>1, <2>1, PulledFacts
    <2> QED
      BY <1>1, <1>2, <1>3, <2>1, <2>2 DEF PullProgress, At
  <1>13. CASE instr = "PLP"
    <2>1. PLPProgress
      BY <1>13 DEF IInv, Progress
    <2> QED
      BY <1>1, <1>2, <1>3, <2>1 DEF PLPProgress, At
  <1>14. CASE instr \in {"JMP"} \cup Indirect
    <2>1. JMPProgress
      BY <1>14 DEF IInv, Progress
    <2> QED
      BY <1>1, <1>2, <2>1 DEF JMPProgress, At
  <1>15. CASE instr \in Branches
    <2>1. BranchProgress
      BY <1>15 DEF IInv, Progress
    <2> QED
      BY <1>1, <1>2, <2>1 DEF BranchProgress, At
  <1>16. CASE instr \in OneCall \cup {"none"}
    <2>1. At(1, Opcode) \/ At(0, before)
      BY <1>16 DEF IInv, Progress
    <2> QED
      BY <1>1, <1>2, <2>1 DEF At
  <1>17. instr \in AllOps \cup {"none"}
    BY OpsAssumption DEF IInv, TypeOK
  <1> QED
    BY <1>6, <1>7, <1>8, <1>9, <1>10, <1>11, <1>12, <1>13, <1>14, <1>15, <1>16, <1>17 DEF AllOps

(* SR never holds a mark, so that a handler can tell BRK from an interrupt. *)
THEOREM MarksStayOut == Spec => []NoMarksInSR
  <1>1. IInv => NoMarksInSR
    BY NoMarks DEF NoMarksInSR, Marks
  <1> QED
    BY <1>1, Invariance, PTL

-----------------------------------------------------------------------------
(* An instruction that ends has done what its static function does: all of  *)
(* them but the branches, which static execution does not take, and IRQ.    *)
LEMMA EndsAsStatic ==
  ASSUME IInv, Next, instr # "none", instr' = "none"
  PROVE  /\ Step
         /\ instr = "NMI" => cpu' = static_NMI(before)
         /\ instr = "BRK" => cpu' = static_BRK(Opcode)
         /\ instr = "RTI" => cpu' = static_RTI(Opcode)
         /\ instr = "JSR" => cpu' = static_JSR(Opcode)
         /\ instr = "RTS" => cpu' = static_RTS(Opcode)
         /\ instr \in Pushes => cpu' = static_PH(Opcode, Register(instr))
         /\ instr \in Pulls => cpu' = static_PL(Opcode, Register(instr))
         /\ instr = "PHP" => cpu' = static_PHP(Opcode)
         /\ instr = "PLP" => cpu' = static_PLP(Opcode)
         /\ instr = "JMP" => cpu' = static_JMP(Opcode)
         /\ instr = "JMP_indirect" => cpu' = static_JMP_indirect(Opcode)
         /\ instr = "JMP_indexed" => cpu' = static_JMP_indexed(Opcode)
         /\ instr = "CLC" => cpu' = CLC(Opcode)
         /\ instr = "SEC" => cpu' = SEC(Opcode)
         /\ instr = "CLD" => cpu' = CLD(Opcode)
         /\ instr = "SED" => cpu' = SED(Opcode)
         /\ instr = "CLI" => cpu' = CLI(Opcode)
         /\ instr = "SEI" => cpu' = SEI(Opcode)
         /\ instr = "CLV" => cpu' = CLV(Opcode)
         /\ instr = "TXS" => cpu' = TXS(Opcode)
         /\ instr = "TSX" => cpu' = TSX(Opcode)
  <1>1. Step
    BY DEF Next, Begin
  <1>2. CASE NMI
    <2>1. instr = "NMI" /\ cpu' = static_NMI(before)
      BY <1>2, NMIStep DEF NMI
    <2> QED
      BY <1>1, <2>1 DEF Pushes, Pulls
  <1>3. CASE IRQ
    <2>1. instr = "IRQ"
      BY <1>3 DEF IRQ
    <2> QED
      BY <1>1, <2>1 DEF Pushes, Pulls
  <1>4. CASE BRK
    <2>1. instr = "BRK" /\ cpu' = static_BRK(Opcode)
      BY <1>4, BRKStep DEF BRK
    <2> QED
      BY <1>1, <2>1 DEF Pushes, Pulls
  <1>5. CASE RTI
    <2>1. instr = "RTI" /\ cpu' = static_RTI(Opcode)
      BY <1>5, RTIStep DEF RTI
    <2> QED
      BY <1>1, <2>1 DEF Pushes, Pulls
  <1>6. CASE JSR
    <2>1. instr = "JSR" /\ cpu' = static_JSR(Opcode)
      BY <1>6, JSRStep DEF JSR
    <2> QED
      BY <1>1, <2>1 DEF Pushes, Pulls
  <1>7. CASE RTS
    <2>1. instr = "RTS" /\ cpu' = static_RTS(Opcode)
      BY <1>7, RTSStep DEF RTS
    <2> QED
      BY <1>1, <2>1 DEF Pushes, Pulls
  <1>8. CASE PH
    <2>1. instr \in Pushes /\ cpu' = static_PH(Opcode, Register(instr))
      BY <1>8, PHStep DEF PH
    <2> QED
      BY <1>1, <2>1 DEF Pushes, Pulls
  <1>9. CASE PL
    <2>1. instr \in Pulls /\ cpu' = static_PL(Opcode, Register(instr))
      BY <1>9, PLStep DEF PL
    <2> QED
      BY <1>1, <2>1 DEF Pushes, Pulls
  <1>10. CASE PHP
    <2>1. instr = "PHP" /\ cpu' = static_PHP(Opcode)
      BY <1>10, PHPStep DEF PHP
    <2> QED
      BY <1>1, <2>1 DEF Pushes, Pulls
  <1>11. CASE PLP
    <2>1. instr = "PLP" /\ cpu' = static_PLP(Opcode)
      BY <1>11, PLPStep DEF PLP
    <2> QED
      BY <1>1, <2>1 DEF Pushes, Pulls
  <1>12. CASE JMP
    <2>1. instr = "JMP" /\ cpu' = static_JMP(Opcode)
      BY <1>12, JMPStep DEF JMP
    <2> QED
      BY <1>1, <2>1 DEF Pushes, Pulls
  <1>13. CASE JMP_indirect
    <2>1. instr = "JMP_indirect" /\ cpu' = static_JMP_indirect(Opcode)
      BY <1>13, IndirectStep DEF JMP_indirect
    <2> QED
      BY <1>1, <2>1 DEF Pushes, Pulls
  <1>14. CASE JMP_indexed
    <2>1. instr = "JMP_indexed" /\ cpu' = static_JMP_indexed(Opcode)
      BY <1>14, IndexedStep DEF JMP_indexed
    <2> QED
      BY <1>1, <2>1 DEF Pushes, Pulls
  <1>15. CASE Branch
    <2>1. instr \in Branches
      BY <1>15 DEF Branch
    <2> QED
      BY <1>1, <2>1 DEF Branches, Pushes, Pulls
  <1>16. CASE Flag \/ Transfer
    BY <1>1, <1>16, OneCallStep DEF Pushes, Pulls
  <1> QED
    BY <1>1, <1>2, <1>3, <1>4, <1>5, <1>6, <1>7, <1>8, <1>9, <1>10, <1>11, <1>12, <1>13, <1>14,
       <1>15, <1>16 DEF Step

(* An interrupted program goes on where it was with its flags, a caller     *)
(* after its JSR, and what was pushed is what is pulled.                    *)
THEOREM ReturnsAreExact == Spec => ReturnsExact
  <1>1. ASSUME IInv, [Next]_vars
        PROVE  [instr # "none" /\ instr' = "none" => Restored(instr)]_vars
    <2> SUFFICES ASSUME Next, instr # "none", instr' = "none" PROVE Restored(instr)
      BY <1>1
    <2>1. Opcode \in State /\ Sound(Opcode, kept) /\ Allowed(instr, before, kept)
      BY <1>1, OpcodeFacts DEF IInv
    <2>2. CASE instr = "RTI"
      <3>1. cpu' = static_RTI(Opcode) /\ Top({"sr", "brk"}, kept)
        BY <1>1, <2>1, <2>2, EndsAsStatic DEF Allowed
      <3>2. /\ cpu'.SR = kept[1].cell.status
            /\ cpu'.PC = <<kept[3].cell.byte, kept[2].cell.byte>> /\ cpu'.SP = kept[3].sp
        BY <2>1, <3>1, RTIEffect
      <3> QED
        BY <2>2, <3>2 DEF Restored, Pulls
    <2>3. CASE instr = "RTS"
      <3>1. cpu' = static_RTS(Opcode) /\ Top({"lo"}, kept)
        BY <1>1, <2>1, <2>3, EndsAsStatic DEF Allowed
      <3>2. cpu'.PC = <<kept[2].cell.byte, kept[1].cell.byte>> /\ cpu'.SP = kept[2].sp
        BY <2>1, <3>1, RTSEffect
      <3> QED
        BY <2>3, <3>2 DEF Restored, Pulls
    <2>4. CASE instr = "PLP"
      <3>1. cpu' = static_PLP(Opcode) /\ Top({"php"}, kept)
        BY <1>1, <2>1, <2>4, EndsAsStatic DEF Allowed
      <3>2. cpu'.SR = kept[1].cell.status /\ cpu'.SP = kept[1].sp
        BY <2>1, <3>1, PLPEffect
      <3> QED
        BY <2>4, <3>2 DEF Restored, Pulls
    <2>5. CASE instr \in Pulls
      <3>1. cpu' = static_PL(Opcode, Register(instr)) /\ Top({"num"}, kept)
        BY <1>1, <2>1, <2>5, EndsAsStatic DEF Allowed
      <3>2. cpu'[Register(instr)] = kept[1].cell.byte /\ cpu'.SP = kept[1].sp
        <4>1. /\ static_PL(Opcode, Register(instr))[Register(instr)] = kept[1].cell.byte
              /\ static_PL(Opcode, Register(instr)).SP = kept[1].sp
          BY <2>1, <3>1, PLEffect
        <4> QED
          BY <3>1, <4>1, Zenon
      <3>3. instr \notin {"RTI", "RTS", "PLP"}
        BY <2>5 DEF Pulls
      <3> QED
        BY <2>5, <3>2, <3>3 DEF Restored
    <2>6. CASE instr \notin {"RTI", "RTS", "PLP"} \cup Pulls
      BY <2>6 DEF Restored
    <2> QED
      BY <2>2, <2>3, <2>4, <2>5, <2>6
  <1> QED
    BY <1>1, Invariance, PTL DEF Spec, ReturnsExact

-----------------------------------------------------------------------------
(* Static execution is instantiated over the same constants: its operators  *)
(* are those of this module.                                                *)
LEMMA SameArithmetic ==
  /\ \A b : Static!Up(b) = Up(b) /\ Static!Down(b) = Down(b) /\ Static!Num(b) = Num(b)
  /\ \A S : Static!Status(S) = Status(S) /\ Static!Unmarked(S) = Unmarked(S)
  /\ \A p : Static!Hi(p) = Hi(p) /\ Static!Lo(p) = Lo(p) /\ Static!Inc(p) = Inc(p)
  /\ \A p, d : Static!Plus(p, d) = Plus(p, d)
  /\ \A p : Static!Word(p) = Word(p)
  /\ Static!NmiVector = NmiVector /\ Static!IrqVector = IrqVector
  BY DEF Static!Up, Up, Static!Down, Down, Static!Num, Num, Static!Status, Status,
         Static!Unmarked, Unmarked, Static!Hi, Hi, Static!Lo, Lo, Static!Inc, Inc,
         Static!Plus, Plus, Static!Word, Word, Static!NmiVector, NmiVector,
         Static!IrqVector, IrqVector

(* The operations on the processor.                                         *)
LEMMA SameOperations ==
  /\ \A s, c : Static!Push(s, c) = Push(s, c)
  /\ \A s : Static!Pop(s) = Pop(s) /\ Static!Popped(s) = Popped(s)
  /\ \A s : Static!PushPC(s) = PushPC(s)
  /\ \A s : Static!Fetched(s) = Fetched(s) /\ Static!Skip2(s) = Skip2(s)
  /\ \A s, p : Static!Jump(s, p) = Jump(s, p)
  /\ \A s, v : Static!DidSet(s, v) = DidSet(s, v)
  /\ \A s : Static!MaskIrq(s) = MaskIrq(s)
  /\ \A s, p : Static!Pointer(s, p) = Pointer(s, p)
  <1>1. \A s, c : Static!Push(s, c) = Push(s, c)
    BY SameArithmetic DEF Static!Push, Push
  <1>2. \A s : Static!Pop(s) = Pop(s) /\ Static!Popped(s) = Popped(s)
    BY SameArithmetic DEF Static!Pop, Pop, Static!Popped, Popped
  <1>3. \A s : Static!PushPC(s) = PushPC(s)
    BY <1>1, SameArithmetic DEF Static!PushPC, PushPC
  <1>4. \A s : Static!Fetched(s) = Fetched(s)
    BY SameArithmetic DEF Static!Fetched, Fetched
  <1>5. \A s : Static!Skip2(s) = Skip2(s)
    BY <1>4 DEF Static!Skip2, Skip2
  <1>6. \A s, p : Static!Jump(s, p) = Jump(s, p)
    BY DEF Static!Jump, Jump
  <1>7. \A s, v : Static!DidSet(s, v) = DidSet(s, v)
    BY DEF Static!DidSet, DidSet, Static!Negative, Negative
  <1>8. \A s : Static!MaskIrq(s) = MaskIrq(s)
    BY DEF Static!MaskIrq, MaskIrq
  <1>9. \A s, p : Static!Pointer(s, p) = Pointer(s, p)
    BY SameArithmetic DEF Static!Pointer, Pointer
  <1> QED
    BY <1>1, <1>2, <1>3, <1>4, <1>5, <1>6, <1>7, <1>8, <1>9

(* What may run next.                                                       *)
LEMMA SameProgram ==
  /\ \A op : Static!Register(op) = Register(op)
  /\ \A op, s, k : Static!Allowed(op, s, k) = Allowed(op, s, k)
  /\ \A op, s, k : Static!Kept(op, s, k) = Kept(op, s, k)
  <1>1. \A op : Static!Register(op) = Register(op)
    BY DEF Static!Register, Register
  <1>2. /\ Static!Interrupts = Interrupts /\ Static!Pushes = Pushes /\ Static!Pulls = Pulls
        /\ Static!Indirect = Indirect /\ Static!CmosOnly = CmosOnly
    BY DEF Static!Interrupts, Interrupts, Static!Pushes, Pushes, Static!Pulls, Pulls,
           Static!Indirect, Indirect, Static!CmosOnly, CmosOnly
  <1>3. \A p : Static!InCode(p) = InCode(p)
    BY SameArithmetic DEF Static!InCode, InCode
  <1>4. \A s : Static!PointsToCode(s) = PointsToCode(s)
    BY SameArithmetic DEF Static!PointsToCode, PointsToCode
  <1>5. /\ \A n, k : Static!Room(n, k) = Room(n, k)
        /\ \A kinds, k : Static!Top(kinds, k) = Top(kinds, k)
    BY DEF Static!Room, Room, Static!Top, Top
  <1>6. \A op, s, k : Static!Allowed(op, s, k) = Allowed(op, s, k)
    BY <1>2, <1>3, <1>4, <1>5 DEF Static!Allowed, Allowed
  <1>7. \A s, p : Static!SavedPC(s, p) = SavedPC(s, p)
    BY SameArithmetic DEF Static!SavedPC, SavedPC, Static!Entry, Entry
  <1>8. \A kind, s, p : Static!Interrupted(kind, s, p) = Interrupted(kind, s, p)
    BY <1>7, SameArithmetic DEF Static!Interrupted, Interrupted, Static!Entry, Entry
  <1>9. \A op, s, k : Static!Kept(op, s, k) = Kept(op, s, k)
    BY <1>1, <1>2, <1>7, <1>8, SameArithmetic DEF Static!Kept, Kept, Static!Entry, Entry
  <1> QED
    BY <1>1, <1>6, <1>9

(* The static functions.                                                    *)
LEMMA SameFunctions ==
  /\ \A s : Static!static_NMI(s) = static_NMI(s) /\ Static!static_BRK(s) = static_BRK(s)
  /\ \A s : Static!static_RTI(s) = static_RTI(s)
  /\ \A s : Static!static_JSR(s) = static_JSR(s) /\ Static!static_RTS(s) = static_RTS(s)
  /\ \A s, r : Static!static_PH(s, r) = static_PH(s, r)
  /\ \A s, r : Static!static_PL(s, r) = static_PL(s, r)
  /\ \A s : Static!static_PHP(s) = static_PHP(s) /\ Static!static_PLP(s) = static_PLP(s)
  /\ \A s : Static!static_JMP(s) = static_JMP(s)
  /\ \A s : Static!static_JMP_indirect(s) = static_JMP_indirect(s)
  /\ \A s : Static!static_JMP_indexed(s) = static_JMP_indexed(s)
  /\ \A s : Static!CLC(s) = CLC(s) /\ Static!SEC(s) = SEC(s) /\ Static!CLD(s) = CLD(s)
  /\ \A s : Static!SED(s) = SED(s) /\ Static!CLI(s) = CLI(s) /\ Static!SEI(s) = SEI(s)
  /\ \A s : Static!CLV(s) = CLV(s) /\ Static!TXS(s) = TXS(s) /\ Static!TSX(s) = TSX(s)
  <1>1. \A s : Static!static_NMI(s) = static_NMI(s) /\ Static!static_BRK(s) = static_BRK(s)
    BY SameArithmetic, SameOperations
       DEF Static!static_NMI, static_NMI, Static!static_BRK, static_BRK
  <1>2. \A s : Static!static_RTI(s) = static_RTI(s)
    BY SameArithmetic, SameOperations DEF Static!static_RTI, static_RTI
  <1>3. \A s : Static!static_JSR(s) = static_JSR(s) /\ Static!static_RTS(s) = static_RTS(s)
    BY SameArithmetic, SameOperations
       DEF Static!static_JSR, static_JSR, Static!static_RTS, static_RTS
  <1>4. \A s, r : Static!static_PH(s, r) = static_PH(s, r)
    BY SameArithmetic, SameOperations DEF Static!static_PH, static_PH
  <1>5. \A s, r : Static!static_PL(s, r) = static_PL(s, r)
    BY SameArithmetic, SameOperations DEF Static!static_PL, static_PL
  <1>6. \A s : Static!static_PHP(s) = static_PHP(s) /\ Static!static_PLP(s) = static_PLP(s)
    BY SameArithmetic, SameOperations
       DEF Static!static_PHP, static_PHP, Static!static_PLP, static_PLP
  <1>7. \A s : Static!static_JMP(s) = static_JMP(s)
    BY SameArithmetic, SameOperations DEF Static!static_JMP, static_JMP
  <1>8. \A s : Static!static_JMP_indirect(s) = static_JMP_indirect(s)
    BY SameArithmetic, SameOperations DEF Static!static_JMP_indirect, static_JMP_indirect
  <1>9. \A s : Static!static_JMP_indexed(s) = static_JMP_indexed(s)
    BY SameArithmetic, SameOperations DEF Static!static_JMP_indexed, static_JMP_indexed
  <1>10. \A s : Static!CLC(s) = CLC(s) /\ Static!SEC(s) = SEC(s) /\ Static!CLD(s) = CLD(s)
    BY DEF Static!CLC, CLC, Static!SEC, SEC, Static!CLD, CLD
  <1>11. \A s : Static!SED(s) = SED(s) /\ Static!CLI(s) = CLI(s) /\ Static!SEI(s) = SEI(s)
    BY DEF Static!SED, SED, Static!CLI, CLI, Static!SEI, SEI
  <1>12. \A s : Static!CLV(s) = CLV(s) /\ Static!TXS(s) = TXS(s) /\ Static!TSX(s) = TSX(s)
    BY SameOperations DEF Static!CLV, CLV, Static!TXS, TXS, Static!TSX, TSX
  <1> QED
    BY <1>1, <1>2, <1>3, <1>4, <1>5, <1>6, <1>7, <1>8, <1>9, <1>10, <1>11, <1>12

(* An instruction that ends is a step of static execution, as long as it is *)
(* no branch and no IRQ; every other call leaves static execution where it  *)
(* is.                                                                      *)
LEMMA EndRefines ==
  ASSUME IInv, Next, instr # "none", instr' = "none",
         Ops \cap (Branches \cup {"IRQ"}) = {}
  PROVE  Static!Next
  <1>1. /\ cpu' = before' /\ kept' = Kept(instr, before, kept)
    <2>1. ASSUME NEW n, NEW s, End(n, s) PROVE cpu' = before' /\ kept' = Kept(instr, before, kept)
      BY <2>1 DEF End
    <2>2. ASSUME NEW n, NEW s, NEW a, NEW b, Call(n, s, a, b) PROVE FALSE
      BY <2>2 DEF Call
    <2>3. Step
      BY EndsAsStatic
    <2>4. NMI \/ IRQ \/ BRK \/ RTI => cpu' = before' /\ kept' = Kept(instr, before, kept)
      BY <2>1, <2>2 DEF NMI, IRQ, BRK, RTI
    <2>5. JSR \/ RTS \/ PH \/ PL => cpu' = before' /\ kept' = Kept(instr, before, kept)
      BY <2>1, <2>2 DEF JSR, RTS, PH, PL
    <2>6. PHP \/ PLP \/ JMP \/ JMP_indirect => cpu' = before' /\ kept' = Kept(instr, before, kept)
      BY <2>1, <2>2 DEF PHP, PLP, JMP, JMP_indirect
    <2>7. JMP_indexed \/ Branch \/ Flag \/ Transfer =>
            cpu' = before' /\ kept' = Kept(instr, before, kept)
      BY <2>1, <2>2 DEF JMP_indexed, Branch, Flag, Transfer
    <2> QED
      BY <2>3, <2>4, <2>5, <2>6, <2>7 DEF Step
  <1>2. Allowed(instr, before, kept) /\ instr \in Ops
    BY DEF IInv, Allowed
  <1>3. instr \in AllOps /\ instr \notin Branches /\ instr # "IRQ"
    BY <1>2, OpsAssumption
  <1>4. Static!f = Opcode
    BY SameOperations DEF Static!f, Opcode
  <1>5. ASSUME NEW effect, cpu' = effect PROVE Static!Run(instr, effect)
    BY <1>1, <1>2, <1>5, SameProgram DEF Static!Run
  <1>6. CASE instr = "NMI"
    <2>1. cpu' = Static!static_NMI(before)
      BY <1>6, EndsAsStatic, SameFunctions
    <2>2. Static!NMI
      BY <1>5, <1>6, <2>1 DEF Static!NMI
    <2> QED
      BY <2>2 DEF Static!Next
  <1>7. CASE instr = "BRK"
    <2>1. cpu' = Static!static_BRK(Static!f)
      BY <1>4, <1>7, EndsAsStatic, SameFunctions
    <2>2. Static!BRK
      BY <1>5, <1>7, <2>1 DEF Static!BRK
    <2> QED
      BY <2>2 DEF Static!Next
  <1>8. CASE instr = "RTI"
    <2>1. cpu' = Static!static_RTI(Static!f)
      BY <1>4, <1>8, EndsAsStatic, SameFunctions
    <2>2. Static!RTI
      BY <1>5, <1>8, <2>1 DEF Static!RTI
    <2> QED
      BY <2>2 DEF Static!Next
  <1>9. CASE instr = "JSR"
    <2>1. cpu' = Static!static_JSR(Static!f)
      BY <1>4, <1>9, EndsAsStatic, SameFunctions
    <2>2. Static!JSR
      BY <1>5, <1>9, <2>1 DEF Static!JSR
    <2> QED
      BY <2>2 DEF Static!Next
  <1>10. CASE instr = "RTS"
    <2>1. cpu' = Static!static_RTS(Static!f)
      BY <1>4, <1>10, EndsAsStatic, SameFunctions
    <2>2. Static!RTS
      BY <1>5, <1>10, <2>1 DEF Static!RTS
    <2> QED
      BY <2>2 DEF Static!Next
  <1>11. CASE instr \in Pushes
    <2>1. cpu' = Static!static_PH(Static!f, Static!Register(instr))
      BY <1>4, <1>11, EndsAsStatic, SameFunctions, SameProgram
    <2>2. Static!Run(instr, Static!static_PH(Static!f, Static!Register(instr)))
      BY <1>5, <2>1
    <2>3. Static!PH
      BY <1>11, <2>2 DEF Static!PH, Static!Pushes, Pushes
    <2> QED
      BY <2>3 DEF Static!Next
  <1>12. CASE instr \in Pulls
    <2>1. cpu' = Static!static_PL(Static!f, Static!Register(instr))
      BY <1>4, <1>12, EndsAsStatic, SameFunctions, SameProgram
    <2>2. Static!Run(instr, Static!static_PL(Static!f, Static!Register(instr)))
      BY <1>5, <2>1
    <2>3. Static!PL
      BY <1>12, <2>2 DEF Static!PL, Static!Pulls, Pulls
    <2> QED
      BY <2>3 DEF Static!Next
  <1>13. CASE instr = "PHP"
    <2>1. cpu' = Static!static_PHP(Static!f)
      BY <1>4, <1>13, EndsAsStatic, SameFunctions
    <2>2. Static!PHP
      BY <1>5, <1>13, <2>1 DEF Static!PHP
    <2> QED
      BY <2>2 DEF Static!Next
  <1>14. CASE instr = "PLP"
    <2>1. cpu' = Static!static_PLP(Static!f)
      BY <1>4, <1>14, EndsAsStatic, SameFunctions
    <2>2. Static!PLP
      BY <1>5, <1>14, <2>1 DEF Static!PLP
    <2> QED
      BY <2>2 DEF Static!Next
  <1>15. CASE instr = "JMP"
    <2>1. cpu' = Static!static_JMP(Static!f)
      BY <1>4, <1>15, EndsAsStatic, SameFunctions
    <2>2. Static!JMP
      BY <1>5, <1>15, <2>1 DEF Static!JMP
    <2> QED
      BY <2>2 DEF Static!Next
  <1>16. CASE instr = "JMP_indirect"
    <2>1. cpu' = Static!static_JMP_indirect(Static!f)
      BY <1>4, <1>16, EndsAsStatic, SameFunctions
    <2>2. Static!JMP_indirect
      BY <1>5, <1>16, <2>1 DEF Static!JMP_indirect
    <2> QED
      BY <2>2 DEF Static!Next
  <1>17. CASE instr = "JMP_indexed"
    <2>1. cpu' = Static!static_JMP_indexed(Static!f)
      BY <1>4, <1>17, EndsAsStatic, SameFunctions
    <2>2. Static!JMP_indexed
      BY <1>5, <1>17, <2>1 DEF Static!JMP_indexed
    <2> QED
      BY <2>2 DEF Static!Next
  <1>18. CASE instr \in {"CLC", "SEC", "CLD", "SED", "CLI", "SEI", "CLV"}
    <2>1. /\ instr = "CLC" => cpu' = Static!CLC(Static!f)
          /\ instr = "SEC" => cpu' = Static!SEC(Static!f)
          /\ instr = "CLD" => cpu' = Static!CLD(Static!f)
          /\ instr = "SED" => cpu' = Static!SED(Static!f)
          /\ instr = "CLI" => cpu' = Static!CLI(Static!f)
          /\ instr = "SEI" => cpu' = Static!SEI(Static!f)
          /\ instr = "CLV" => cpu' = Static!CLV(Static!f)
      BY <1>4, EndsAsStatic, SameFunctions
    <2>2. Static!Flag
      BY <1>5, <1>18, <2>1 DEF Static!Flag
    <2> QED
      BY <2>2 DEF Static!Next
  <1>19. CASE instr \in {"TXS", "TSX"}
    <2>1. /\ instr = "TXS" => cpu' = Static!TXS(Static!f)
          /\ instr = "TSX" => cpu' = Static!TSX(Static!f)
      BY <1>4, EndsAsStatic, SameFunctions
    <2>2. Static!Transfer
      BY <1>5, <1>19, <2>1 DEF Static!Transfer
    <2> QED
      BY <2>2 DEF Static!Next
  <1> QED
    BY <1>3, <1>6, <1>7, <1>8, <1>9, <1>10, <1>11, <1>12, <1>13, <1>14, <1>15, <1>16, <1>17,
       <1>18, <1>19 DEF AllOps, Interrupts, Indirect, OneCall

(* Staged execution of any program without branches and IRQs implements     *)
(* static execution: seen from one instruction's end to the next, the many  *)
(* calls of a staged function are the one call of the static one.           *)
THEOREM StagedIsStatic ==
  ASSUME Ops \cap (Branches \cup {"IRQ"}) = {}
  PROVE  Spec => StaticAgrees
  <1>1. Init => Static!Init
    BY DEF Init, Static!Init
  <1>2. IInv /\ [Next]_vars => [Static!Next]_(Static!vars)
    <2> SUFFICES ASSUME IInv, [Next]_vars PROVE Static!Next \/ UNCHANGED Static!vars
      OBVIOUS
    <2>1. CASE UNCHANGED vars
      BY <2>1 DEF vars, Static!vars
    <2>2. CASE Next /\ instr # "none" /\ instr' = "none"
      BY <2>2, EndRefines
    <2>3. CASE Next /\ instr = "none"
      <3>1. ~ Step
        BY <2>3 DEF Step, NMI, IRQ, BRK, RTI, JSR, RTS, PH, PL, PHP, PLP, JMP, JMP_indirect,
                    JMP_indexed, Branch, Flag, Transfer, Pushes, Pulls, Indirect, Branches
      <3> QED
        BY <2>3, <3>1 DEF Next, Begin, Static!vars
    <2>4. CASE Next /\ instr # "none" /\ instr' # "none"
      <3>1. ASSUME NEW n, NEW s, End(n, s) PROVE FALSE
        BY <2>4, <3>1 DEF End
      <3>2. ASSUME NEW n, NEW s, NEW a, NEW b, Call(n, s, a, b) PROVE UNCHANGED <<before, kept>>
        BY <3>2 DEF Call
      <3>3. Step
        BY <2>4 DEF Next, Begin
      <3>4. NMI \/ IRQ \/ BRK \/ RTI => UNCHANGED <<before, kept>>
        BY <3>1, <3>2 DEF NMI, IRQ, BRK, RTI
      <3>5. JSR \/ RTS \/ PH \/ PL => UNCHANGED <<before, kept>>
        BY <3>1, <3>2 DEF JSR, RTS, PH, PL
      <3>6. PHP \/ PLP \/ JMP \/ JMP_indirect => UNCHANGED <<before, kept>>
        BY <3>1, <3>2 DEF PHP, PLP, JMP, JMP_indirect
      <3>7. JMP_indexed \/ Branch \/ Flag \/ Transfer => UNCHANGED <<before, kept>>
        BY <3>1, <3>2 DEF JMP_indexed, Branch, Flag, Transfer
      <3> QED
        BY <3>3, <3>4, <3>5, <3>6, <3>7 DEF Step, Static!vars
    <2> QED
      BY <2>1, <2>2, <2>3, <2>4
  <1> QED
    BY <1>1, <1>2, Invariance, PTL DEF Spec, StaticAgrees, Static!Spec
=============================================================================

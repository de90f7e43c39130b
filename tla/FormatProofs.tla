------------------------------ MODULE FormatProofs ------------------------------
(***************************************************************************)
(* Theorems about what ft_strace shows of an argument and of a result, for *)
(* any size of a byte, of a page and of a buffer, any content of the       *)
(* memory and any call.                                                    *)
(***************************************************************************)
EXTENDS Format, DataLemmas

-----------------------------------------------------------------------------
(* Numbers. *)

\* Division with remainder.
LEMMA Division ==
  ASSUME NEW m \in Nat \ {0}
  PROVE  /\ \A a \in Int : a % m \in 0..(m - 1) /\ a \div m \in Int
         /\ \A a \in Int : a = m * (a \div m) + (a % m)
         /\ \A q \in Int, r \in 0..(m - 1) : (m * q + r) % m = r
         /\ \A a \in 0..(m - 1) : a % m = a
         /\ \A q \in Int : (m * q) % m = 0
         /\ \A a \in Int : (a + m) % m = a % m
<1>1. \A a \in Int : a % m \in 0..(m - 1) /\ a \div m \in Int
  OBVIOUS
<1>2. \A a \in Int : a = m * (a \div m) + (a % m)
  OBVIOUS
<1>3. \A q \in Int, r \in 0..(m - 1) : (m * q + r) % m = r
  OBVIOUS
<1>4. \A a \in 0..(m - 1) : a % m = a
  OBVIOUS
<1>5. \A q \in Int : (m * q) % m = 0
  OBVIOUS
<1>6. ASSUME NEW a \in Int PROVE (a + m) % m = a % m
  <2>1. PICK q \in Int, r \in 0..(m - 1) : a = m * q + r /\ r = a % m
    <3>1. a \div m \in Int /\ a % m \in 0..(m - 1) /\ a = m * (a \div m) + (a % m)
      BY <1>1, <1>2
    <3>2. QED
      BY <3>1
  <2>2. m * (q + 1) = m * q + m /\ m * q \in Int /\ q + 1 \in Int
    OBVIOUS
  <2>3. a + m = m * (q + 1) + r
    BY <2>1, <2>2
  <2>4. QED
    BY <1>3, <2>1, <2>2, <2>3
<1>7. QED
  BY <1>1, <1>2, <1>3, <1>4, <1>5, <1>6

\* The numbers a register can hold.
LEMMA Widths ==
  /\ Base \in Nat \ {0} /\ Word \in Nat \ {0} /\ Long \in Nat \ {0}
  /\ Word % 2 = 0 /\ Long % 2 = 0 /\ Word <= Long
  /\ \A compat \in BOOLEAN : Modulus(compat) \in Nat \ {0} /\ Modulus(compat) % 2 = 0
                             /\ Modulus(compat) <= Long
<1>1. Base \in Nat \ {0} /\ Base % 2 = 0
  BY ScaleAssumption
<1>2. PICK h \in Nat : Base = 2 * h
  <2>1. Base = 2 * (Base \div 2) /\ Base \div 2 \in Nat
    BY <1>1
  <2>2. QED
    BY <2>1
<1>3. Long \in Nat \ {0} /\ Word <= Long
  BY <1>1 DEF Long, Word
<1>4. Long % 2 = 0
  <2>1. Base * Base = 2 * (h * Base) /\ h * Base \in Nat
    BY <1>1, <1>2
  <2>2. QED
    BY <2>1 DEF Long
<1>5. QED
  BY <1>1, <1>3, <1>4 DEF Word, Modulus

\* Half of an even number.
LEMMA Halves ==
  ASSUME NEW m \in Nat \ {0}, m % 2 = 0
  PROVE  m \div 2 \in Nat /\ m = 2 * (m \div 2)
OBVIOUS

\* What is signed has the range of its width, and is the same number to the kernel.
LEMMA SignedTrue ==
  ASSUME NEW m \in Nat \ {0}, m % 2 = 0, NEW v \in Int
  PROVE  /\ Signed(v % m, m) \in (-(m \div 2))..((m \div 2) - 1)
         /\ (Signed(v % m, m) - v) % m = 0 /\ ((v % m) - v) % m = 0
<1>1. PICK q \in Int, r \in 0..(m - 1) : v = m * q + r /\ r = v % m
  BY Division
<1>2. m * q \in Int /\ m * (-q) = -(m * q) /\ m * (-q - 1) = -(m * q) - m
  OBVIOUS
<1>3. m \div 2 \in Nat /\ m = 2 * (m \div 2)
  BY Halves
<1>4. Signed(r, m) = r \/ Signed(r, m) = r - m
  BY DEF Signed
<1>5. Signed(r, m) \in (-(m \div 2))..((m \div 2) - 1)
  BY <1>1, <1>3 DEF Signed
<1>6. (r - v) % m = 0
  <2>1. r - v = m * (-q) /\ -q \in Int
    BY <1>1, <1>2
  <2>2. QED
    BY <2>1, Division
<1>7. (r - m - v) % m = 0
  <2>1. r - m - v = m * (-q - 1) /\ -q - 1 \in Int
    BY <1>1, <1>2
  <2>2. QED
    BY <2>1, Division
<1>8. QED
  BY <1>1, <1>4, <1>5, <1>6, <1>7

\* A result survives its way through a register of its width.
LEMMA SignedBack ==
  ASSUME NEW m \in Nat \ {0}, m % 2 = 0, NEW v \in Int, 2 * v \in (-m)..(m - 1)
  PROVE  Signed(v % m, m) = v
<1>1. m \div 2 \in Nat /\ m = 2 * (m \div 2)
  BY Halves
<1>2. CASE v >= 0
  <2>1. v \in 0..(m - 1)
    BY <1>2
  <2>2. v % m = v
    BY <2>1, Division
  <2>3. QED
    BY <1>2, <2>2 DEF Signed
<1>3. CASE v < 0
  <2>1. v + m \in 0..(m - 1)
    BY <1>3
  <2>2. v % m = v + m
    BY <2>1, Division
  <2>3. QED
    BY <1>3, <2>2 DEF Signed
<1>4. QED
  BY <1>2, <1>3

\* The smaller of two numbers.
LEMMA MinOfTwo ==
  ASSUME NEW a \in Int, NEW b \in Int
  PROVE  Min({a, b}) = IF a <= b THEN a ELSE b
<1>1. PICK m : m = IF a <= b THEN a ELSE b
  OBVIOUS
<1>2. m \in {a, b} /\ \A y \in {a, b} : m <= y
  BY <1>1
<1>3. \A x \in {a, b} : (\A y \in {a, b} : x <= y) => x = m
  BY <1>1
<1>4. Min({a, b}) = m
  BY <1>2, <1>3 DEF Min
<1>5. QED
  BY <1>1, <1>4

-----------------------------------------------------------------------------
(* Prefixes. *)

\* A set of numbers that holds with each number those before it is all up to its size.
LEMMA Prefix ==
  ASSUME NEW n \in Nat, NEW S \in SUBSET (1..n), \A k \in S : \A j \in 1..k : j \in S
  PROVE  /\ Cardinality(S) \in 0..n /\ S = 1..Cardinality(S)
         /\ Cardinality(S) < n => Cardinality(S) + 1 \notin S
<1>1. PICK m \in 0..n : S = 1..m
  <2>1. CASE S = {}
    <3>1. S = 1..0 /\ 0 \in 0..n
      BY <2>1
    <3>2. QED
      BY <3>1
  <2>2. CASE S # {}
    <3>1. PICK m \in S : \A k \in S : k <= m
      BY <2>2, Largest
    <3>2. \A k \in 1..m : k \in S
      BY <3>1
    <3>3. \A k \in S : k \in 1..m
      BY <3>1
    <3>4. S \subseteq 1..m /\ 1..m \subseteq S
      BY <3>2, <3>3
    <3>5. S = 1..m
      BY <3>4
    <3>6. QED
      BY <3>5
  <2>3. QED
    BY <2>1, <2>2
<1>2. Cardinality(1..m) = m
  <2>1. 1 \in Int /\ m \in Int
    OBVIOUS
  <2>2. QED
    BY <2>1, FS_Interval
<1>3. QED
  BY <1>1, <1>2

-----------------------------------------------------------------------------
(* Registers. *)

\* Where the registers of an x86-64 call are in its register set.
Places64 == [rdi |-> 15, rsi |-> 14, rdx |-> 13, r10 |-> 8, r8 |-> 10, r9 |-> 9,
             orig_rax |-> 16, rax |-> 11]
\* Where those of an i386 call are.
Places32 == [ebx |-> 1, ecx |-> 2, edx |-> 3, esi |-> 4, edi |-> 5, ebp |-> 6,
             orig_eax |-> 12, eax |-> 7]

\* A field is taken from its place.
LEMMA Placed64 ==
  \A r \in DOMAIN Places64 :
    /\ Places64[r] \in DOMAIN user_regs_struct64
    /\ \A k \in DOMAIN user_regs_struct64 : user_regs_struct64[k] = r <=> k = Places64[r]
    /\ Prstatus(FALSE)[Places64[r]] = r /\ Places64[r] \in DOMAIN Prstatus(FALSE)
<1>1. DOMAIN user_regs_struct64 = 1..27
  BY DEF user_regs_struct64
<1>2. \A k \in 1..27 : user_regs_struct64[k] = "rdi" <=> k = 15
  BY DEF user_regs_struct64
<1>3. \A k \in 1..27 : user_regs_struct64[k] = "rsi" <=> k = 14
  BY DEF user_regs_struct64
<1>4. \A k \in 1..27 : user_regs_struct64[k] = "rdx" <=> k = 13
  BY DEF user_regs_struct64
<1>5. \A k \in 1..27 : user_regs_struct64[k] = "r10" <=> k = 8
  BY DEF user_regs_struct64
<1>6. \A k \in 1..27 : user_regs_struct64[k] = "r8" <=> k = 10
  BY DEF user_regs_struct64
<1>7. \A k \in 1..27 : user_regs_struct64[k] = "r9" <=> k = 9
  BY DEF user_regs_struct64
<1>8. \A k \in 1..27 : user_regs_struct64[k] = "orig_rax" <=> k = 16
  BY DEF user_regs_struct64
<1>9. \A k \in 1..27 : user_regs_struct64[k] = "rax" <=> k = 11
  BY DEF user_regs_struct64
<1>10. ASSUME NEW r \in DOMAIN Places64
       PROVE  /\ Places64[r] \in 1..27
              /\ \A k \in 1..27 : user_regs_struct64[k] = r <=> k = Places64[r]
  <2>1. r \in {"rdi", "rsi", "rdx", "r10", "r8", "r9", "orig_rax", "rax"}
    BY DEF Places64
  <2>2. QED
    BY <1>2, <1>3, <1>4, <1>5, <1>6, <1>7, <1>8, <1>9, <2>1 DEF Places64
<1>11. Prstatus(FALSE) = user_regs_struct64
  BY DEF Prstatus, user_regs_struct64
<1>12. QED
  BY <1>1, <1>10, <1>11

\* The same for the other struct of the union, whose names are not all the kernel's.
LEMMA Placed32 ==
  \A r \in DOMAIN Places32 :
    /\ Places32[r] \in DOMAIN user_regs_struct32
    /\ \A k \in DOMAIN user_regs_struct32 : user_regs_struct32[k] = r <=> k = Places32[r]
    /\ Prstatus(TRUE)[Places32[r]] = r /\ Places32[r] \in DOMAIN Prstatus(TRUE)
<1>1. DOMAIN user_regs_struct32 = 1..17 /\ DOMAIN Prstatus(TRUE) = 1..17
  BY DEF user_regs_struct32, Prstatus
<1>2. \A k \in 1..17 : user_regs_struct32[k] = "ebx" <=> k = 1
  BY DEF user_regs_struct32
<1>3. \A k \in 1..17 : user_regs_struct32[k] = "ecx" <=> k = 2
  BY DEF user_regs_struct32
<1>4. \A k \in 1..17 : user_regs_struct32[k] = "edx" <=> k = 3
  BY DEF user_regs_struct32
<1>5. \A k \in 1..17 : user_regs_struct32[k] = "esi" <=> k = 4
  BY DEF user_regs_struct32
<1>6. \A k \in 1..17 : user_regs_struct32[k] = "edi" <=> k = 5
  BY DEF user_regs_struct32
<1>7. \A k \in 1..17 : user_regs_struct32[k] = "ebp" <=> k = 6
  BY DEF user_regs_struct32
<1>8. \A k \in 1..17 : user_regs_struct32[k] = "orig_eax" <=> k = 12
  BY DEF user_regs_struct32
<1>9. \A k \in 1..17 : user_regs_struct32[k] = "eax" <=> k = 7
  BY DEF user_regs_struct32
<1>10. ASSUME NEW r \in DOMAIN Places32
       PROVE  /\ Places32[r] \in 1..17
              /\ \A k \in 1..17 : user_regs_struct32[k] = r <=> k = Places32[r]
              /\ Prstatus(TRUE)[Places32[r]] = r
  <2>1. r \in {"ebx", "ecx", "edx", "esi", "edi", "ebp", "orig_eax", "eax"}
    BY DEF Places32
  <2>2. /\ Places32[r] \in 1..17
        /\ \A k \in 1..17 : user_regs_struct32[k] = r <=> k = Places32[r]
    BY <1>2, <1>3, <1>4, <1>5, <1>6, <1>7, <1>8, <1>9, <2>1 DEF Places32
  <2>3. Prstatus(TRUE)[Places32[r]] = r
    BY <2>1 DEF Places32, Prstatus
  <2>4. QED
    BY <2>2, <2>3
<1>11. QED
  BY <1>1, <1>10

\* A register of the set, by what it is for.
LEMMA Filled ==
  ASSUME NEW k \in DOMAIN Prstatus(call.compat), NEW r, Prstatus(call.compat)[k] = r
  PROVE  /\ r \in {"rax", "eax"} => Regset[k] = Register(call.ret, call.compat)
         /\ r \in {"orig_rax", "orig_eax"} => Regset[k] = CallNumber
         /\ \A i \in 1..6 :
              /\ \A j \in 1..6 : Convention(call.compat)[j] = r <=> j = i
              /\ r \notin {"rax", "eax", "orig_rax", "orig_eax"}
              => Regset[k] = Passed[i]
<1>1. r \in {"rax", "eax"} => Regset[k] = Register(call.ret, call.compat)
  BY DEF Regset
<1>2. r \in {"orig_rax", "orig_eax"} => Regset[k] = CallNumber
  BY DEF Regset
<1>3. ASSUME NEW i \in 1..6, \A j \in 1..6 : Convention(call.compat)[j] = r <=> j = i,
             r \notin {"rax", "eax", "orig_rax", "orig_eax"}
      PROVE  Regset[k] = Passed[i]
  <2>1. PICK c : c = CHOOSE j \in {j \in 1..6 : Convention(call.compat)[j] = r} : TRUE
    OBVIOUS
  <2>2. i \in {j \in 1..6 : Convention(call.compat)[j] = r}
    BY <1>3
  <2>3. c = i
    BY <1>3, <2>1, <2>2
  <2>4. Regset[k] = Passed[CHOOSE j \in {j \in 1..6 : Convention(call.compat)[j] = r} : TRUE]
    BY <1>3, <2>2 DEF Regset
  <2>5. QED
    BY <2>1, <2>3, <2>4
<1>4. QED
  BY <1>1, <1>2, <1>3

\* A field taken from a layout that has it in one place only.
LEMMA TakenFrom ==
  ASSUME NEW regs, NEW layout, NEW fields, NEW i \in DOMAIN fields,
         NEW p \in DOMAIN layout, \A k \in DOMAIN layout : layout[k] = fields[i] <=> k = p
  PROVE  Taken(regs, layout, fields)[i] = regs[p]
<1>1. (CHOOSE k \in DOMAIN layout : layout[k] = fields[i]) = p
  OBVIOUS
<1>2. QED
  BY <1>1 DEF Taken

\* What the register set of an x86-64 call holds.
LEMMA Held64 ==
  ASSUME call.compat = FALSE
  PROVE  /\ Len(Regset) = 27
         /\ \A i \in 1..6 : Regset[Places64[Convention(FALSE)[i]]] = Passed[i]
         /\ Regset[Places64["rax"]] = Register(call.ret, FALSE)
         /\ Regset[Places64["orig_rax"]] = CallNumber
<1>1. Prstatus(call.compat) = Prstatus(FALSE) /\ Convention(call.compat) = Convention(FALSE)
      /\ Register(call.ret, call.compat) = Register(call.ret, FALSE)
  OBVIOUS
<1>2. ASSUME NEW i \in 1..6 PROVE Regset[Places64[Convention(FALSE)[i]]] = Passed[i]
  <2>1. PICK r : r = Convention(FALSE)[i]
    OBVIOUS
  <2>2. \A j \in 1..6 : Convention(FALSE)[j] = r <=> j = i
    BY <2>1 DEF Convention
  <2>3. r \in {"rdi", "rsi", "rdx", "r10", "r8", "r9"}
    BY <2>1 DEF Convention
  <2>4. r \in DOMAIN Places64
    BY <2>3 DEF Places64
  <2>5. Prstatus(FALSE)[Places64[r]] = r /\ Places64[r] \in DOMAIN Prstatus(FALSE)
    BY <2>4, Placed64
  <2>6. r \notin {"rax", "eax", "orig_rax", "orig_eax"}
    BY <2>3
  <2>7. PICK k \in DOMAIN Prstatus(call.compat) :
          k = Places64[r] /\ Prstatus(call.compat)[k] = r
    BY <1>1, <2>5
  <2>8. \A j \in 1..6 : Convention(call.compat)[j] = r <=> j = i
    BY <1>1, <2>2
  <2>9. Regset[k] = Passed[i]
    BY <2>6, <2>7, <2>8, Filled
  <2>10. QED
    BY <2>1, <2>7, <2>9
<1>3. ASSUME NEW r \in {"rax", "orig_rax"}
      PROVE  Prstatus(FALSE)[Places64[r]] = r /\ Places64[r] \in DOMAIN Prstatus(FALSE)
  <2>1. r \in DOMAIN Places64
    BY DEF Places64
  <2>2. QED
    BY <2>1, Placed64
<1>4. Regset[Places64["rax"]] = Register(call.ret, FALSE)
  BY <1>1, <1>3, Filled
<1>5. Regset[Places64["orig_rax"]] = CallNumber
  BY <1>1, <1>3, Filled
<1>6. Len(Regset) = 27
  <2>1. DOMAIN Regset = 1..27
    <3>1. DOMAIN Prstatus(FALSE) = 1..27
      BY DEF Prstatus
    <3>2. DOMAIN Regset = DOMAIN Prstatus(call.compat)
      BY DEF Regset
    <3>3. QED
      BY <1>1, <3>1, <3>2
  <2>2. PICK S : S = {Regset[k] : k \in 1..27}
    OBVIOUS
  <2>3. Regset = [k \in DOMAIN Regset |-> Regset[k]]
    BY DEF Regset
  <2>4. Regset \in [1..27 -> S]
    BY <2>1, <2>2, <2>3
  <2>5. PICK g \in [1..27 -> S] : g = Regset
    BY <2>4
  <2>6. Len(g) = 27
    <3>1. 27 \in Nat
      OBVIOUS
    <3>2. QED
      BY <3>1, SequenceOf
  <2>7. QED
    BY <2>5, <2>6
<1>7. QED
  BY <1>2, <1>4, <1>5, <1>6

\* What that of an i386 call holds.
LEMMA Held32 ==
  ASSUME call.compat = TRUE
  PROVE  /\ Len(Regset) = 17
         /\ \A i \in 1..6 : Regset[Places32[Convention(TRUE)[i]]] = Passed[i]
         /\ Regset[Places32["eax"]] = Register(call.ret, TRUE)
         /\ Regset[Places32["orig_eax"]] = CallNumber
<1>1. Prstatus(call.compat) = Prstatus(TRUE) /\ Convention(call.compat) = Convention(TRUE)
      /\ Register(call.ret, call.compat) = Register(call.ret, TRUE)
  OBVIOUS
<1>2. ASSUME NEW i \in 1..6 PROVE Regset[Places32[Convention(TRUE)[i]]] = Passed[i]
  <2>1. PICK r : r = Convention(TRUE)[i]
    OBVIOUS
  <2>2. \A j \in 1..6 : Convention(TRUE)[j] = r <=> j = i
    BY <2>1 DEF Convention
  <2>3. r \in {"ebx", "ecx", "edx", "esi", "edi", "ebp"}
    BY <2>1 DEF Convention
  <2>4. r \in DOMAIN Places32
    BY <2>3 DEF Places32
  <2>5. Prstatus(TRUE)[Places32[r]] = r /\ Places32[r] \in DOMAIN Prstatus(TRUE)
    BY <2>4, Placed32
  <2>6. r \notin {"rax", "eax", "orig_rax", "orig_eax"}
    BY <2>3
  <2>7. PICK k \in DOMAIN Prstatus(call.compat) :
          k = Places32[r] /\ Prstatus(call.compat)[k] = r
    BY <1>1, <2>5
  <2>8. \A j \in 1..6 : Convention(call.compat)[j] = r <=> j = i
    BY <1>1, <2>2
  <2>9. Regset[k] = Passed[i]
    BY <2>6, <2>7, <2>8, Filled
  <2>10. QED
    BY <2>1, <2>7, <2>9
<1>3. ASSUME NEW r \in {"eax", "orig_eax"}
      PROVE  Prstatus(TRUE)[Places32[r]] = r /\ Places32[r] \in DOMAIN Prstatus(TRUE)
  <2>1. r \in DOMAIN Places32
    BY DEF Places32
  <2>2. QED
    BY <2>1, Placed32
<1>4. Regset[Places32["eax"]] = Register(call.ret, TRUE)
  BY <1>1, <1>3, Filled
<1>5. Regset[Places32["orig_eax"]] = CallNumber
  BY <1>1, <1>3, Filled
<1>6. Len(Regset) = 17
  <2>1. DOMAIN Regset = 1..17
    <3>1. DOMAIN Prstatus(TRUE) = 1..17
      BY DEF Prstatus
    <3>2. DOMAIN Regset = DOMAIN Prstatus(call.compat)
      BY DEF Regset
    <3>3. QED
      BY <1>1, <3>1, <3>2
  <2>2. PICK S : S = {Regset[k] : k \in 1..17}
    OBVIOUS
  <2>3. Regset = [k \in DOMAIN Regset |-> Regset[k]]
    BY DEF Regset
  <2>4. Regset \in [1..17 -> S]
    BY <2>1, <2>2, <2>3
  <2>5. PICK g \in [1..17 -> S] : g = Regset
    BY <2>4
  <2>6. Len(g) = 17
    <3>1. 17 \in Nat
      OBVIOUS
    <3>2. QED
      BY <3>1, SequenceOf
  <2>7. QED
    BY <2>5, <2>6
<1>7. QED
  BY <1>2, <1>4, <1>5, <1>6

\* What read_registers reads is what the program has passed.
LEMMA RegistersRead ==
  ASSUME call.compat \in BOOLEAN
  PROVE  read_registers(Regset) =
           [arg |-> Passed, orig_ax |-> CallNumber,
            rax |-> Register(call.ret, call.compat), compat |-> call.compat]
<1>1. Len(user_regs_struct64) = 27
  BY DEF user_regs_struct64
<1>2. CASE call.compat = FALSE
  <2>1. PICK fields : fields = <<"rdi", "rsi", "rdx", "r10", "r8", "r9">>
    OBVIOUS
  <2>2. DOMAIN fields = 1..6 /\ \A i \in 1..6 : fields[i] = Convention(FALSE)[i]
    BY <2>1 DEF Convention
  <2>3. \A i \in 1..6 : fields[i] \in DOMAIN Places64
    BY <2>1 DEF Places64
  <2>4. Taken(Regset, user_regs_struct64, fields) = Passed
    <3>1. ASSUME NEW i \in 1..6
          PROVE  Taken(Regset, user_regs_struct64, fields)[i] = Passed[i]
      <4>1. PICK r \in DOMAIN Places64 : r = fields[i]
        BY <2>3
      <4>2. Taken(Regset, user_regs_struct64, fields)[i] = Regset[Places64[r]]
        <5>1. PICK l, p : l = user_regs_struct64 /\ p = Places64[r]
          OBVIOUS
        <5>2. p \in DOMAIN l /\ (\A k \in DOMAIN l : l[k] = fields[i] <=> k = p)
          BY <4>1, <5>1, Placed64
        <5>3. Taken(Regset, l, fields)[i] = Regset[p]
          BY <2>2, <5>2, TakenFrom
        <5>4. QED
          BY <5>1, <5>3
      <4>3. Regset[Places64[r]] = Passed[i]
        BY <1>2, <2>2, <4>1, Held64
      <4>4. QED
        BY <4>2, <4>3
    <3>2. PICK t : t = Taken(Regset, user_regs_struct64, fields)
      OBVIOUS
    <3>3. t = [i \in 1..6 |-> t[i]]
      BY <2>2, <3>2 DEF Taken
    <3>4. Passed = [i \in 1..6 |-> Passed[i]]
      BY DEF Passed
    <3>5. QED
      BY <3>1, <3>2, <3>3, <3>4
  <2>5. ASSUME NEW r \in {"rax", "orig_rax"}
        PROVE  Taken(Regset, user_regs_struct64, <<r>>)[1] = Regset[Places64[r]]
    <3>1. r \in DOMAIN Places64
      BY DEF Places64
    <3>2. 1 \in DOMAIN <<r>> /\ <<r>>[1] = r
      OBVIOUS
    <3>3. PICK l, p, f : l = user_regs_struct64 /\ p = Places64[r] /\ f = <<r>>
      OBVIOUS
    <3>4. p \in DOMAIN l /\ (\A k \in DOMAIN l : l[k] = f[1] <=> k = p) /\ 1 \in DOMAIN f
      BY <3>1, <3>2, <3>3, Placed64
    <3>5. Taken(Regset, l, f)[1] = Regset[p]
      BY <3>4, TakenFrom
    <3>6. QED
      BY <3>3, <3>5
  <2>6. read_registers(Regset) =
          [arg |-> Taken(Regset, user_regs_struct64, fields),
           orig_ax |-> Taken(Regset, user_regs_struct64, <<"orig_rax">>)[1],
           rax |-> Taken(Regset, user_regs_struct64, <<"rax">>)[1], compat |-> FALSE]
    <3>1. Len(Regset) = 27
      BY <1>2, Held64
    <3>2. Len(Regset) = Len(user_regs_struct64)
      BY <1>1, <3>1
    <3>3. QED
      BY <2>1, <3>2 DEF read_registers
  <2>7. QED
    BY <1>2, <2>4, <2>5, <2>6, Held64
<1>3. CASE call.compat = TRUE
  <2>1. PICK fields : fields = <<"ebx", "ecx", "edx", "esi", "edi", "ebp">>
    OBVIOUS
  <2>2. DOMAIN fields = 1..6 /\ \A i \in 1..6 : fields[i] = Convention(TRUE)[i]
    BY <2>1 DEF Convention
  <2>3. \A i \in 1..6 : fields[i] \in DOMAIN Places32
    BY <2>1 DEF Places32
  <2>4. Taken(Regset, user_regs_struct32, fields) = Passed
    <3>1. ASSUME NEW i \in 1..6
          PROVE  Taken(Regset, user_regs_struct32, fields)[i] = Passed[i]
      <4>1. PICK r \in DOMAIN Places32 : r = fields[i]
        BY <2>3
      <4>2. Taken(Regset, user_regs_struct32, fields)[i] = Regset[Places32[r]]
        <5>1. PICK l, p : l = user_regs_struct32 /\ p = Places32[r]
          OBVIOUS
        <5>2. p \in DOMAIN l /\ (\A k \in DOMAIN l : l[k] = fields[i] <=> k = p)
          BY <4>1, <5>1, Placed32
        <5>3. Taken(Regset, l, fields)[i] = Regset[p]
          BY <2>2, <5>2, TakenFrom
        <5>4. QED
          BY <5>1, <5>3
      <4>3. Regset[Places32[r]] = Passed[i]
        BY <1>3, <2>2, <4>1, Held32
      <4>4. QED
        BY <4>2, <4>3
    <3>2. PICK t : t = Taken(Regset, user_regs_struct32, fields)
      OBVIOUS
    <3>3. t = [i \in 1..6 |-> t[i]]
      BY <2>2, <3>2 DEF Taken
    <3>4. Passed = [i \in 1..6 |-> Passed[i]]
      BY DEF Passed
    <3>5. QED
      BY <3>1, <3>2, <3>3, <3>4
  <2>5. ASSUME NEW r \in {"eax", "orig_eax"}
        PROVE  Taken(Regset, user_regs_struct32, <<r>>)[1] = Regset[Places32[r]]
    <3>1. r \in DOMAIN Places32
      BY DEF Places32
    <3>2. 1 \in DOMAIN <<r>> /\ <<r>>[1] = r
      OBVIOUS
    <3>3. PICK l, p, f : l = user_regs_struct32 /\ p = Places32[r] /\ f = <<r>>
      OBVIOUS
    <3>4. p \in DOMAIN l /\ (\A k \in DOMAIN l : l[k] = f[1] <=> k = p) /\ 1 \in DOMAIN f
      BY <3>1, <3>2, <3>3, Placed32
    <3>5. Taken(Regset, l, f)[1] = Regset[p]
      BY <3>4, TakenFrom
    <3>6. QED
      BY <3>3, <3>5
  <2>6. read_registers(Regset) =
          [arg |-> Taken(Regset, user_regs_struct32, fields),
           orig_ax |-> Taken(Regset, user_regs_struct32, <<"orig_eax">>)[1],
           rax |-> Taken(Regset, user_regs_struct32, <<"eax">>)[1], compat |-> TRUE]
    <3>1. Len(Regset) = 17
      BY <1>3, Held32
    <3>2. Len(Regset) # Len(user_regs_struct64)
      BY <1>1, <3>1
    <3>3. QED
      BY <2>1, <3>2 DEF read_registers
  <2>7. QED
    BY <1>3, <2>4, <2>5, <2>6, Held32
<1>4. QED
  BY <1>2, <1>3

-----------------------------------------------------------------------------
(* Pointers. *)

\* The number in one byte.
LEMMA PointerOfOne ==
  ASSUME NEW bytes \in Seq(Nat), Len(bytes) = 1
  PROVE  Pointer(bytes) = bytes[1]
<1> DEFINE Fits(f) == f = [s \in SUBSET (DOMAIN bytes) |->
                             IF s = {} THEN 0
                             ELSE bytes[Min(s)] + Base * f[s \ {Min(s)}]]
<1>1. DOMAIN bytes = {1} /\ bytes[1] \in Nat /\ Base \in Nat
  BY ScaleAssumption
<1>2. PICK g : g = CHOOSE f : Fits(f)
  OBVIOUS
<1>3. Pointer(bytes) = g[DOMAIN bytes]
  BY <1>2 DEF Pointer, FoldRight, MapThenFoldSet
<1>4. Min({1}) = 1
  BY DEF Min
<1>5. Base * 0 = 0 /\ {1} \ {1} = {}
  BY <1>1
<1>6. \E f : Fits(f)
  <2> DEFINE h == [s \in SUBSET {1} |-> IF s = {} THEN 0 ELSE bytes[1]]
  <2>1. h[{}] = 0 /\ h[{1}] = bytes[1]
    OBVIOUS
  <2>2. ASSUME NEW s \in SUBSET {1}
        PROVE  h[s] = IF s = {} THEN 0 ELSE bytes[Min(s)] + Base * h[s \ {Min(s)}]
    <3>1. CASE s = {}
      BY <2>1, <3>1
    <3>2. CASE s = {1}
      <4>1. h[s \ {Min(s)}] = 0
        BY <1>4, <1>5, <2>1, <3>2
      <4> HIDE DEF h
      <4>2. QED
        BY <1>1, <1>4, <1>5, <2>1, <3>2, <4>1
    <3>3. QED
      BY <3>1, <3>2
  <2>3. h = [s \in SUBSET {1} |-> h[s]]
    OBVIOUS
  <2> HIDE DEF h
  <2>4. Fits(h)
    BY <1>1, <2>2, <2>3
  <2>5. QED
    BY <2>4
<1>7. Fits(g)
  <2> HIDE DEF Fits
  <2>1. QED
    BY <1>2, <1>6
<1>8. g[{1}] = bytes[Min({1})] + Base * g[{1} \ {Min({1})}]
  BY <1>1, <1>7
<1>9. g[{}] = 0
  BY <1>7
<1>10. g[{1}] = bytes[1] + Base * 0
  BY <1>4, <1>5, <1>8, <1>9
<1> HIDE DEF Fits
<1>11. QED
  BY <1>1, <1>3, <1>5, <1>10

\* The number in two.
LEMMA PointerOfTwo ==
  ASSUME NEW bytes \in Seq(Nat), Len(bytes) = 2
  PROVE  Pointer(bytes) = bytes[1] + Base * bytes[2]
<1> DEFINE Fits(f) == f = [s \in SUBSET (DOMAIN bytes) |->
                             IF s = {} THEN 0
                             ELSE bytes[Min(s)] + Base * f[s \ {Min(s)}]]
<1>1. DOMAIN bytes = {1, 2} /\ bytes[1] \in Nat /\ bytes[2] \in Nat /\ Base \in Nat
  <2>1. 1..2 = {1, 2} /\ bytes[1] \in Nat /\ bytes[2] \in Nat
    OBVIOUS
  <2>2. DOMAIN bytes = 1..2
    OBVIOUS
  <2>3. QED
    BY <2>1, <2>2, ScaleAssumption
<1>2. PICK g : g = CHOOSE f : Fits(f)
  OBVIOUS
<1>3. Pointer(bytes) = g[DOMAIN bytes]
  BY <1>2 DEF Pointer, FoldRight, MapThenFoldSet
<1>4. Min({1}) = 1 /\ Min({2}) = 2
  BY DEF Min
<1>5. Min({1, 2}) = 1
  BY MinOfTwo
<1>6. /\ Base * 0 = 0 /\ {1} \ {1} = {} /\ {2} \ {2} = {} /\ {1, 2} \ {1} = {2}
      /\ Base * bytes[2] \in Nat
  BY <1>1
<1>7. \E f : Fits(f)
  <2> DEFINE h == [s \in SUBSET {1, 2} |->
                     IF s = {} THEN 0 ELSE IF s = {1} THEN bytes[1]
                     ELSE IF s = {2} THEN bytes[2] ELSE bytes[1] + Base * bytes[2]]
  <2>1. /\ h[{}] = 0 /\ h[{1}] = bytes[1] /\ h[{2}] = bytes[2]
        /\ h[{1, 2}] = bytes[1] + Base * bytes[2]
    <3>1. {1} # {} /\ {2} # {} /\ {1, 2} # {} /\ {1} # {2} /\ {1, 2} # {1} /\ {1, 2} # {2}
      <4>1. 1 \in {1} /\ 1 \notin {2} /\ 2 \in {2} /\ 2 \notin {1} /\ 1 \in {1, 2} /\ 2 \in {1, 2}
        OBVIOUS
      <4>2. QED
        BY <4>1, Zenon
    <3>2. QED
      BY <3>1
  <2>2. h = [s \in SUBSET {1, 2} |-> h[s]]
    OBVIOUS
  <2> HIDE DEF h
  <2>3. ASSUME NEW s \in SUBSET {1, 2}
        PROVE  h[s] = IF s = {} THEN 0 ELSE bytes[Min(s)] + Base * h[s \ {Min(s)}]
    <3>1. CASE s = {}
      BY <2>1, <3>1
    <3>2. CASE s = {1}
      <4>1. h[s \ {Min(s)}] = 0
        BY <1>4, <1>6, <2>1, <3>2
      <4>2. bytes[Min(s)] = bytes[1]
        BY <1>4, <3>2
      <4>3. bytes[Min(s)] + Base * h[s \ {Min(s)}] = bytes[1]
        BY <1>1, <1>6, <4>1, <4>2
      <4>4. QED
        BY <2>1, <3>2, <4>3
    <3>3. CASE s = {2}
      <4>1. h[s \ {Min(s)}] = 0
        BY <1>4, <1>6, <2>1, <3>3
      <4>2. bytes[Min(s)] = bytes[2]
        BY <1>4, <3>3
      <4>3. bytes[Min(s)] + Base * h[s \ {Min(s)}] = bytes[2]
        BY <1>1, <1>6, <4>1, <4>2
      <4>4. QED
        BY <2>1, <3>3, <4>3
    <3>4. CASE s = {1, 2}
      <4>1. h[s \ {Min(s)}] = bytes[2]
        BY <1>5, <1>6, <2>1, <3>4
      <4>2. bytes[Min(s)] = bytes[1] /\ s # {}
        BY <1>5, <3>4
      <4>3. QED
        BY <2>1, <3>4, <4>1, <4>2
    <3>5. QED
      BY <3>1, <3>2, <3>3, <3>4
  <2>4. Fits(h)
    BY <1>1, <2>2, <2>3
  <2>5. QED
    BY <2>4
<1>8. Fits(g)
  <2> HIDE DEF Fits
  <2>1. QED
    BY <1>2, <1>7
<1>9. g[{1, 2}] = bytes[Min({1, 2})] + Base * g[{1, 2} \ {Min({1, 2})}]
  BY <1>1, <1>8
<1>10. g[{2}] = bytes[Min({2})] + Base * g[{2} \ {Min({2})}]
  BY <1>1, <1>8
<1>11. g[{}] = 0
  BY <1>8
<1> HIDE DEF Fits
<1>12. g[{2}] = bytes[2]
  <2>1. g[{2}] = bytes[2] + Base * 0
    BY <1>4, <1>6, <1>10, <1>11
  <2>2. QED
    BY <1>1, <1>6, <2>1
<1>13. g[{1, 2}] = bytes[1] + Base * bytes[2]
  BY <1>5, <1>6, <1>9, <1>12
<1>14. QED
  BY <1>1, <1>3, <1>13

\* Two bytes make a number that a register can hold, and no pointer is longer.
LEMMA PointerFits ==
  \A b, c \in Byte : b \in 0..(Long - 1) /\ b + Base * c \in 0..(Long - 1)
<1>1. Base \in Nat \ {0} /\ Long \in Nat
  BY Widths
<1>2. TAKE b, c \in Byte
<1>3. b \in 0..(Base - 1) /\ c \in 0..(Base - 1)
  BY <1>1 DEF Byte
<1>4. Base * c <= Base * (Base - 1) /\ Base * c \in Nat
  BY <1>1, <1>3
<1>5. Base * (Base - 1) = Base * Base - Base /\ Base * Base >= Base
  BY <1>1
<1>6. QED
  BY <1>1, <1>3, <1>4, <1>5 DEF Long

-----------------------------------------------------------------------------
(* Memory. *)

\* The memory holds bytes.
Bytes == \A a \in DOMAIN mem : mem[a] \in Byte

\* read_tracee copies the bytes from a on that can be read, up to the first that cannot
\* be or up to the size.
LEMMA ReadTrue ==
  ASSUME NEW a \in Int, NEW size \in Nat, Bytes, NEW buf, buf = read_tracee(a, size)
  PROVE  /\ buf \in Seq(Byte) /\ Len(buf) \in 0..size
         /\ \A k \in 1..Len(buf) : Readable(a + k - 1) /\ buf[k] = mem[a + k - 1]
         /\ Len(buf) < size => ~Readable(a + Len(buf))
<1>1. PICK S : S = {k \in 1..size : \A j \in 1..k : Readable(a + j - 1)}
  OBVIOUS
<1>2. PICK n : n = Cardinality(S)
  OBVIOUS
<1>3. S \in SUBSET (1..size) /\ \A k \in S : \A j \in 1..k : j \in S
  <2>1. ASSUME NEW k \in S, NEW j \in 1..k PROVE j \in S
    <3>1. k \in 1..size /\ \A i \in 1..k : Readable(a + i - 1)
      BY <1>1
    <3>2. j \in 1..size /\ 1..j \subseteq 1..k
      BY <3>1
    <3>3. QED
      BY <1>1, <3>1, <3>2
  <2>2. QED
    BY <1>1, <2>1
<1>4. n \in 0..size /\ S = 1..n /\ (n < size => n + 1 \notin S)
  BY <1>2, <1>3, Prefix
<1>5. buf = [k \in 1..n |-> mem[a + k - 1]]
  BY <1>1, <1>2 DEF read_tracee
<1>6. ASSUME NEW k \in 1..n PROVE Readable(a + k - 1) /\ buf[k] = mem[a + k - 1] /\ buf[k] \in Byte
  <2>1. k \in S /\ k \in 1..k
    BY <1>4
  <2>2. Readable(a + k - 1)
    BY <1>1, <2>1
  <2>3. mem[a + k - 1] \in Byte
    BY <2>2 DEF Readable, Bytes
  <2>4. QED
    BY <1>5, <2>2, <2>3
<1>7. buf \in [1..n -> Byte]
  BY <1>5, <1>6
<1>8. buf \in Seq(Byte) /\ Len(buf) = n
  BY <1>4, <1>7, SequenceOf
<1>9. ASSUME n < size PROVE ~Readable(a + n)
  <2>1. n + 1 \in 1..size /\ n + 1 \notin S
    BY <1>4, <1>9
  <2>2. PICK j \in 1..(n + 1) : ~Readable(a + j - 1)
    BY <1>1, <2>1
  <2>3. j \notin 1..n
    BY <1>6, <2>2
  <2>4. j = n + 1 /\ a + j - 1 = a + n
    BY <1>4, <2>2, <2>3
  <2>5. QED
    BY <2>2, <2>4
<1>10. QED
  BY <1>4, <1>6, <1>8, <1>9

\* What can be read is there, and is what the address holds now.
LEMMA ReadableIsThere ==
  \A a : /\ Readable(a) => There(a) /\ mem[a] \in Held(a) /\ alive
         /\ alive /\ There(a) => Readable(a)
BY DEF Readable, There, Held

\* The bytes before the first NUL.
LEMMA StrnlenTrue ==
  ASSUME NEW buf \in Seq(Byte), NEW n, n = strnlen(buf)
  PROVE  /\ n \in 0..Len(buf)
         /\ \A k \in 1..n : buf[k] # 0
         /\ n < Len(buf) => buf[n + 1] = 0
<1>1. PICK S : S = {k \in 1..Len(buf) : \A j \in 1..k : buf[j] # 0}
  OBVIOUS
<1>2. Len(buf) \in Nat /\ DOMAIN buf = 1..Len(buf)
  OBVIOUS
<1>3. n = Cardinality(S)
  BY <1>1, <1>2 DEF strnlen
<1>4. S \in SUBSET (1..Len(buf)) /\ \A k \in S : \A j \in 1..k : j \in S
  BY <1>1
<1>5. n \in 0..Len(buf) /\ S = 1..n /\ (n < Len(buf) => n + 1 \notin S)
  BY <1>2, <1>3, <1>4, Prefix
<1>6. ASSUME NEW k \in 1..n PROVE buf[k] # 0
  <2>1. k \in S /\ k \in 1..k
    BY <1>5
  <2>2. QED
    BY <1>1, <2>1
<1>7. ASSUME n < Len(buf) PROVE buf[n + 1] = 0
  <2>1. n + 1 \in 1..Len(buf) /\ n + 1 \notin S
    BY <1>5, <1>7
  <2>2. PICK j \in 1..(n + 1) : buf[j] = 0
    BY <1>1, <2>1
  <2>3. j \notin 1..n
    BY <1>6, <2>2
  <2>4. j = n + 1
    BY <1>5, <2>2, <2>3
  <2>5. QED
    BY <2>2, <2>4
<1>8. QED
  BY <1>5, <1>6, <1>7

\* What print_string shows is the pointer, or a string that is true.
LEMMA PrintStringTrue ==
  ASSUME NEW a \in Int, Bytes
  PROVE  \/ print_string(a) = Address(a)
         \/ \E text \in Seq(Byte), more \in BOOLEAN :
              /\ print_string(a) = Text(text, print_quoted(text), more)
              /\ StringTrue(print_string(a), a)
<1>1. PICK buf : buf = read_tracee(a, StringCap)
  OBVIOUS
<1>2. StringCap \in Nat \ {0}
  BY ScaleAssumption
<1>3. /\ buf \in Seq(Byte) /\ Len(buf) \in 0..StringCap
      /\ \A k \in 1..Len(buf) : Readable(a + k - 1) /\ buf[k] = mem[a + k - 1]
      /\ Len(buf) < StringCap => ~Readable(a + Len(buf))
  BY <1>1, <1>2, ReadTrue
<1>4. CASE buf = <<>>
  BY <1>1, <1>4 DEF print_string
<1>5. CASE buf # <<>>
  <2>1. PICK n : n = strnlen(buf)
    OBVIOUS
  <2>2. n \in 0..Len(buf) /\ (\A k \in 1..n : buf[k] # 0) /\ (n < Len(buf) => buf[n + 1] = 0)
    BY <1>3, <2>1, StrnlenTrue
  <2>3. PICK text : text = SubSeq(buf, 1, n)
    OBVIOUS
  <2>4. /\ text \in Seq(Byte) /\ Len(text) = n /\ DOMAIN text = 1..n
        /\ \A k \in 1..n : text[k] = buf[k]
    BY <1>3, <2>2, <2>3
  <2>5. PICK more \in BOOLEAN : more = (n = Len(buf))
    OBVIOUS
  <2>6. PICK t : t = print_string(a)
    OBVIOUS
  <2>7. t = Text(text, print_quoted(text), more)
    BY <1>1, <1>5, <2>1, <2>3, <2>4, <2>5, <2>6 DEF print_string
  <2>8. t.bytes = text /\ t.more = more
    BY <2>7 DEF Text
  <2>9. alive
    <3>1. 1 \in 1..Len(buf)
      BY <1>3, <1>5
    <3>2. QED
      BY <1>3, <3>1, ReadableIsThere
  <2>10. IsAt(t, a)
    <3>1. ASSUME NEW k \in 1..n PROVE There(a + k - 1) /\ text[k] \in Held(a + k - 1)
      <4>1. k \in 1..Len(buf)
        BY <1>3, <2>2
      <4>2. Readable(a + k - 1) /\ text[k] = mem[a + k - 1]
        BY <1>3, <2>4, <4>1
      <4>3. QED
        BY <4>2, ReadableIsThere
    <3>2. QED
      BY <2>4, <2>8, <3>1 DEF IsAt
  <2>11. \A k \in DOMAIN t.bytes : t.bytes[k] # 0
    BY <2>2, <2>4, <2>8
  <2>12. CASE more
    <3>1. n = Len(buf)
      BY <2>5, <2>12
    <3>2. n = StringCap \/ ~There(a + n)
      BY <1>2, <1>3, <2>9, <3>1, ReadableIsThere
    <3>3. StringTrue(t, a)
      BY <2>4, <2>8, <2>10, <2>11, <2>12, <3>2 DEF StringTrue
    <3>4. QED
      BY <2>4, <2>6, <2>7, <3>3
  <2>13. CASE ~more
    <3>1. n < Len(buf) /\ n + 1 \in 1..Len(buf) /\ a + (n + 1) - 1 = a + n
      <4>1. n # Len(buf)
        BY <2>5, <2>13
      <4>2. QED
        BY <1>3, <2>2, <4>1
    <3>2. Readable(a + n) /\ mem[a + n] = 0
      BY <1>3, <2>2, <3>1
    <3>3. There(a + n) /\ 0 \in Held(a + n)
      BY <3>2, ReadableIsThere
    <3>4. StringTrue(t, a)
      BY <2>4, <2>8, <2>10, <2>11, <2>13, <3>3 DEF StringTrue
    <3>5. QED
      BY <2>4, <2>6, <2>7, <3>4
  <2>14. QED
    BY <2>12, <2>13
<1>6. QED
  BY <1>4, <1>5

\* What print_bytes shows is the pointer, or bytes that are there: as many as wanted
\* unless they are marked as cut.
LEMMA PrintBytesTrue ==
  ASSUME NEW a \in Int, NEW length \in Nat, Bytes
  PROVE  \/ print_bytes(a, length) = Address(a)
         \/ \E buf \in Seq(Byte) :
              /\ print_bytes(a, length) = Text(buf, print_quoted(buf), Len(buf) < length)
              /\ IsAt(print_bytes(a, length), a)
              /\ Len(buf) <= length
              /\ Len(buf) < length => Len(buf) = ByteCap \/ ~There(a + Len(buf))
<1>1. PICK wanted : wanted = Min({length, ByteCap})
  OBVIOUS
<1>2. ByteCap \in Nat \ {0}
  BY ScaleAssumption
<1>3. wanted = IF length <= ByteCap THEN length ELSE ByteCap
  BY <1>1, <1>2, MinOfTwo
<1>4. wanted \in Nat /\ wanted <= length /\ (wanted < length => wanted = ByteCap)
      /\ (wanted = 0 => length = 0)
  BY <1>2, <1>3
<1>5. PICK buf : buf = read_tracee(a, wanted)
  OBVIOUS
<1>6. /\ buf \in Seq(Byte) /\ Len(buf) \in 0..wanted
      /\ \A k \in 1..Len(buf) : Readable(a + k - 1) /\ buf[k] = mem[a + k - 1]
      /\ Len(buf) < wanted => ~Readable(a + Len(buf))
  BY <1>4, <1>5, ReadTrue
<1>7. CASE wanted > 0 /\ buf = <<>>
  BY <1>1, <1>5, <1>7 DEF print_bytes
<1>8. CASE ~(wanted > 0 /\ buf = <<>>)
  <2>1. PICK t : t = print_bytes(a, length)
    OBVIOUS
  <2>2. t = Text(buf, print_quoted(buf), Len(buf) < length)
    BY <1>1, <1>5, <1>8, <2>1 DEF print_bytes
  <2>3. t.bytes = buf
    BY <2>2 DEF Text
  <2>4. IsAt(t, a)
    <3>1. ASSUME NEW k \in 1..Len(buf) PROVE There(a + k - 1) /\ buf[k] \in Held(a + k - 1)
      BY <1>6, ReadableIsThere
    <3>2. DOMAIN buf = 1..Len(buf)
      BY <1>6
    <3>3. QED
      BY <2>3, <3>1, <3>2 DEF IsAt
  <2>5. ASSUME Len(buf) < length PROVE Len(buf) = ByteCap \/ ~There(a + Len(buf))
    <3>1. CASE Len(buf) = wanted
      BY <1>4, <2>5, <3>1
    <3>2. CASE Len(buf) # wanted
      <4>1. ~Readable(a + Len(buf)) /\ wanted > 0
        BY <1>4, <1>6, <3>2
      <4>2. 1 \in 1..Len(buf)
        BY <1>6, <1>8, <4>1
      <4>3. alive
        BY <1>6, <4>2, ReadableIsThere
      <4>4. QED
        BY <4>1, <4>3, ReadableIsThere
    <3>3. QED
      BY <3>1, <3>2
  <2>6. QED
    BY <1>4, <1>6, <2>1, <2>2, <2>4, <2>5
<1>9. QED
  BY <1>7, <1>8

-----------------------------------------------------------------------------
(* Quotes. *)

\* What a byte is shown as, between the quotes.
Char(b) ==
  IF b \in {Quote, Backslash} THEN <<Backslash, b>>
  ELSE IF b \in Printable THEN <<b>>
  ELSE <<Backslash>> \o Digits[b]

States == {"before", "inside", "escaped", "closed", "wrong"}

\* g is what ScanStep goes through along s, from state g[0] on.
Walk(s, g) ==
  /\ g \in [0..Len(s) -> States]
  /\ \A k \in 1..Len(s) : g[k] = ScanStep(g[k - 1], s[k])

\* What FoldLeft computes with ScanStep on the set s of places of q, by function f.
Folds(f, q, n) ==
  \A s \in SUBSET (1..n) :
    f[s] = IF s = {} THEN "before" ELSE ScanStep(f[s \ {Max(s)}], q[Max(s)])

\* There is such a function, however long q is.
LEMMA FoldExists ==
  ASSUME NEW q, NEW n \in Nat
  PROVE  \E f : f = [s \in SUBSET (1..n) |-> f[s]] /\ Folds(f, q, n)
<1> DEFINE Up == {k \in Nat : \E f : f = [s \in SUBSET (1..k - 1) |-> f[s]] /\ Folds(f, q, k - 1)}
<1>1. 1 \in Up
  <2> DEFINE f == [s \in SUBSET (1..1 - 1) |-> "before"]
  <2>1. \A s \in SUBSET (1..1 - 1) : s = {} /\ f[s] = "before"
    OBVIOUS
  <2>2. f = [s \in SUBSET (1..1 - 1) |-> f[s]]
    OBVIOUS
  <2> HIDE DEF f
  <2>3. Folds(f, q, 1 - 1)
    BY <2>1 DEF Folds
  <2>4. QED
    BY <2>2, <2>3
<1>2. ASSUME NEW j \in 1..(n + 1) - 1, j \in Up PROVE j + 1 \in Up
  <2>1. PICK k \in Nat : k = j - 1 /\ j = k + 1
    OBVIOUS
  <2>2. PICK f : f = [s \in SUBSET (1..k) |-> f[s]] /\ Folds(f, q, k)
    BY <1>2, <2>1
  <2> DEFINE g == [s \in SUBSET (1..k + 1) |->
                     IF k + 1 \in s THEN ScanStep(f[s \ {k + 1}], q[k + 1]) ELSE f[s]]
  <2>3. g = [s \in SUBSET (1..k + 1) |-> g[s]]
    OBVIOUS
  <2>4. \A s \in SUBSET (1..k) : g[s] = f[s]
    <3>1. ASSUME NEW s \in SUBSET (1..k) PROVE s \in SUBSET (1..k + 1) /\ k + 1 \notin s
      OBVIOUS
    <3>2. QED
      BY <3>1
  <2>5. \A s \in SUBSET (1..k + 1) :
          k + 1 \in s => g[s] = ScanStep(f[s \ {k + 1}], q[k + 1])
    OBVIOUS
  <2> HIDE DEF g
  <2>6. ASSUME NEW s \in SUBSET (1..k + 1)
        PROVE  g[s] = IF s = {} THEN "before" ELSE ScanStep(g[s \ {Max(s)}], q[Max(s)])
    <3>1. CASE k + 1 \in s
      <4>1. s \in SUBSET Nat /\ (\A i \in s : i <= k + 1) /\ s # {}
        BY <3>1
      <4>2. Max(s) = k + 1
        BY <3>1, <4>1, MaxIs
      <4>3. s \ {k + 1} \in SUBSET (1..k)
        OBVIOUS
      <4>4. g[s \ {k + 1}] = f[s \ {k + 1}]
        BY <2>4, <4>3
      <4>5. g[s] = ScanStep(f[s \ {k + 1}], q[k + 1])
        BY <2>5, <3>1
      <4>6. QED
        BY <4>1, <4>2, <4>4, <4>5
    <3>2. CASE k + 1 \notin s
      <4>1. s \in SUBSET (1..k)
        BY <3>2
      <4>2. g[s] = f[s] /\ f[s] = IF s = {} THEN "before" ELSE ScanStep(f[s \ {Max(s)}], q[Max(s)])
        BY <2>2, <2>4, <4>1 DEF Folds
      <4>3. g[s \ {Max(s)}] = f[s \ {Max(s)}]
        <5>1. s \ {Max(s)} \in SUBSET (1..k)
          BY <4>1
        <5>2. QED
          BY <2>4, <5>1
      <4>4. QED
        BY <4>2, <4>3
    <3>3. QED
      BY <3>1, <3>2
  <2>7. Folds(g, q, k + 1)
    BY <2>6 DEF Folds
  <2>8. (j + 1) - 1 = k + 1 /\ j + 1 \in Nat
    BY <2>1
  <2>9. QED
    BY <2>3, <2>7, <2>8
<1>3. 1..n + 1 \subseteq Up
  <2>1. n + 1 \in Nat
    OBVIOUS
  <2> HIDE DEF Up
  <2>2. QED
    BY <1>1, <1>2, <2>1, UpTo
<1>4. n + 1 \in Up /\ (n + 1) - 1 = n
  <2>1. n + 1 \in 1..n + 1 /\ (n + 1) - 1 = n
    OBVIOUS
  <2> HIDE DEF Up
  <2>2. QED
    BY <1>3, <2>1
<1>5. QED
  BY <1>4

\* Scan ends where a walk from before the first quote does.
LEMMA ScanIs ==
  ASSUME NEW S, NEW q \in Seq(S), NEW g, Walk(q, g), g[0] = "before"
  PROVE  Scan(q) = g[Len(q)]
<1>1. PICK n \in Nat : n = Len(q) /\ DOMAIN q = 1..n
  OBVIOUS
<1> DEFINE Fits(f) == f = [s \in SUBSET (DOMAIN q) |->
                             IF s = {} THEN "before"
                             ELSE ScanStep(f[s \ {Max(s)}], q[Max(s)])]
<1>2. PICK h : h = CHOOSE f : Fits(f)
  OBVIOUS
<1>3. Scan(q) = h[DOMAIN q]
  BY <1>2 DEF Scan, FoldLeft, MapThenFoldSet
<1>4. \E f : Fits(f)
  <2>1. PICK f : f = [s \in SUBSET (1..n) |-> f[s]] /\ Folds(f, q, n)
    BY FoldExists
  <2>2. Fits(f)
    BY <1>1, <2>1 DEF Folds
  <2>3. QED
    BY <2>2
<1>5. Fits(h)
  <2> HIDE DEF Fits
  <2>1. QED
    BY <1>2, <1>4
<1>6. Folds(h, q, n)
  BY <1>1, <1>5 DEF Folds
<1> HIDE DEF Fits
<1> DEFINE In == {k \in Nat : k - 1 <= n => h[1..k - 1] = g[k - 1]}
<1>7. 1 \in In
  <2>1. 1..1 - 1 = {} /\ 1 - 1 = 0
    OBVIOUS
  <2>2. {} \in SUBSET (1..n)
    OBVIOUS
  <2>3. h[{}] = "before"
    BY <1>6, <2>2 DEF Folds
  <2>4. QED
    BY <2>1, <2>3
<1>8. ASSUME NEW k \in 1..(n + 1) - 1, k \in In PROVE k + 1 \in In
  <2>1. k \in 1..n /\ k - 1 \in Nat /\ (k + 1) - 1 = k /\ k + 1 \in Nat
    OBVIOUS
  <2>2. h[1..k - 1] = g[k - 1]
    BY <1>8, <2>1
  <2>3. PICK s : s = 1..k
    OBVIOUS
  <2>4. s \in SUBSET (1..n) /\ s # {} /\ s \in SUBSET Nat /\ k \in s /\ \A i \in s : i <= k
    <3>1. k \in s
      BY <2>1, <2>3
    <3>2. \A i \in s : i \in 1..n /\ i \in Nat /\ i <= k
      BY <2>1, <2>3
    <3>3. QED
      BY <3>1, <3>2
  <2>5. Max(s) = k
    BY <2>4, MaxIs
  <2>6. s \ {k} = 1..k - 1
    <3>1. s \ {k} \subseteq 1..k - 1 /\ 1..k - 1 \subseteq s \ {k}
      BY <2>1, <2>3
    <3>2. QED
      BY <3>1
  <2>7. h[s] = ScanStep(h[s \ {Max(s)}], q[Max(s)])
    BY <1>6, <2>4 DEF Folds
  <2>8. h[s] = ScanStep(g[k - 1], q[k])
    BY <2>2, <2>5, <2>6, <2>7
  <2>9. g[k] = ScanStep(g[k - 1], q[k])
    BY <1>1, <2>1 DEF Walk
  <2>10. QED
    BY <2>1, <2>3, <2>8, <2>9
<1>9. 1..n + 1 \subseteq In
  <2>1. n + 1 \in Nat
    OBVIOUS
  <2> HIDE DEF In
  <2>2. QED
    BY <1>7, <1>8, <2>1, UpTo
<1>10. n + 1 \in In /\ (n + 1) - 1 = n
  <2>1. n + 1 \in 1..n + 1 /\ (n + 1) - 1 = n
    OBVIOUS
  <2> HIDE DEF In
  <2>2. QED
    BY <1>9, <2>1
<1>11. h[1..n] = g[n]
  BY <1>10
<1>12. QED
  BY <1>1, <1>3, <1>11

\* What stays between the quotes.
Kept == {s \in Seq(Byte) : \E g : Walk(s, g) /\ g[0] = "inside" /\ g[Len(s)] = "inside"}

\* Two such pieces joined are such a piece.
LEMMA KeptJoined ==
  ASSUME NEW s \in Kept, NEW t \in Kept
  PROVE  s \o t \in Kept
<1>1. PICK g : Walk(s, g) /\ g[0] = "inside" /\ g[Len(s)] = "inside"
  BY DEF Kept
<1>2. PICK h : Walk(t, h) /\ h[0] = "inside" /\ h[Len(t)] = "inside"
  BY DEF Kept
<1>3. PICK m \in Nat, n \in Nat : m = Len(s) /\ n = Len(t) /\ s \in Seq(Byte) /\ t \in Seq(Byte)
  BY DEF Kept
<1>4. PICK q : q = s \o t
  OBVIOUS
<1>5. /\ q \in Seq(Byte) /\ Len(q) = m + n
      /\ \A k \in 1..m + n : q[k] = IF k <= m THEN s[k] ELSE t[k - m]
  BY <1>3, <1>4
<1> DEFINE w == [k \in 0..m + n |-> IF k <= m THEN g[k] ELSE h[k - m]]
<1>6. /\ g \in [0..m -> States] /\ \A k \in 1..m : g[k] = ScanStep(g[k - 1], s[k])
      /\ h \in [0..n -> States] /\ \A k \in 1..n : h[k] = ScanStep(h[k - 1], t[k])
  BY <1>1, <1>2, <1>3 DEF Walk
<1>7. w \in [0..m + n -> States]
  BY <1>6
<1>8. \A k \in 0..m : w[k] = g[k]
  OBVIOUS
<1>9. \A k \in 0..n : w[m + k] = h[k]
  <2>1. TAKE k \in 0..n
  <2>2. CASE k = 0
    BY <1>1, <1>2, <1>3, <2>2
  <2>3. CASE k # 0
    <3>1. m + k \in 0..m + n /\ ~(m + k <= m) /\ (m + k) - m = k
      BY <2>3
    <3>2. QED
      BY <3>1
  <2>4. QED
    BY <2>2, <2>3
<1> HIDE DEF w
<1>10. ASSUME NEW k \in 1..m + n PROVE w[k] = ScanStep(w[k - 1], q[k])
  <2>1. CASE k <= m
    <3>1. k \in 1..m /\ k \in 0..m /\ k - 1 \in 0..m
      BY <2>1
    <3>2. w[k] = g[k] /\ w[k - 1] = g[k - 1] /\ q[k] = s[k] /\ g[k] = ScanStep(g[k - 1], s[k])
      BY <1>5, <1>6, <1>8, <2>1, <3>1
    <3>3. QED
      BY <3>2
  <2>2. CASE k > m
    <3>1. PICK j \in 1..n : k = m + j /\ k - m = j /\ k - 1 = m + (j - 1)
      <4>1. k - m \in 1..n /\ k = m + (k - m) /\ k - 1 = m + ((k - m) - 1)
        BY <2>2
      <4>2. QED
        BY <4>1
    <3>2. j \in 0..n /\ j - 1 \in 0..n
      BY <3>1
    <3>3. w[k] = h[j] /\ w[k - 1] = h[j - 1] /\ q[k] = t[j] /\ h[j] = ScanStep(h[j - 1], t[j])
      BY <1>5, <1>6, <1>9, <2>2, <3>1, <3>2
    <3>4. QED
      BY <3>3
  <2>3. QED
    BY <2>1, <2>2
<1>11. Walk(q, w)
  BY <1>5, <1>7, <1>10 DEF Walk
<1>12. w[0] = "inside" /\ w[m + n] = "inside"
  BY <1>1, <1>2, <1>3, <1>8, <1>9
<1>13. QED
  BY <1>4, <1>5, <1>11, <1>12 DEF Kept

\* What a byte is shown as stays between the quotes.
LEMMA CharKept ==
  ASSUME NEW b \in Byte
  PROVE  Char(b) \in Kept
<1>1. /\ Quote \in Byte /\ Backslash \in Byte /\ Quote # Backslash
      /\ Quote \in Printable /\ Backslash \in Printable /\ Printable \subseteq Byte
  BY CharacterAssumption
<1>2. /\ ScanStep("inside", Backslash) = "escaped"
      /\ \A c : ScanStep("escaped", c) = "inside"
      /\ \A c : c \notin {Quote, Backslash} => ScanStep("inside", c) = "inside"
  BY <1>1 DEF ScanStep
<1>3. ASSUME NEW s \in Seq(Byte), Len(s) >= 2, s[1] = Backslash,
             \A k \in 1..Len(s) : k > 2 => s[k] \notin {Quote, Backslash}
      PROVE  s \in Kept
  <2> DEFINE w == [k \in 0..Len(s) |-> IF k = 1 THEN "escaped" ELSE "inside"]
  <2>1. w \in [0..Len(s) -> States] /\ Len(s) \in Nat
    BY DEF States
  <2>2. w[0] = "inside" /\ w[Len(s)] = "inside" /\ w[1] = "escaped"
    BY <1>3, <2>1
  <2>3. \A k \in 2..Len(s) : w[k] = "inside"
    OBVIOUS
  <2> HIDE DEF w
  <2>4. ASSUME NEW k \in 1..Len(s) PROVE w[k] = ScanStep(w[k - 1], s[k])
    <3>1. CASE k = 1
      BY <1>2, <1>3, <2>2, <3>1
    <3>2. CASE k = 2
      <4>1. w[2] = "inside" /\ w[2 - 1] = "escaped"
        BY <1>3, <2>1, <2>2, <2>3
      <4>2. QED
        BY <1>2, <3>2, <4>1
    <3>3. CASE k > 2
      <4>1. k \in 2..Len(s) /\ k - 1 \in 2..Len(s)
        BY <3>3
      <4>2. w[k] = "inside" /\ w[k - 1] = "inside" /\ s[k] \notin {Quote, Backslash}
        BY <1>3, <2>3, <3>3, <4>1
      <4>3. QED
        BY <1>2, <4>2
    <3>4. QED
      BY <3>1, <3>2, <3>3
  <2>5. Walk(s, w)
    BY <2>1, <2>4 DEF Walk
  <2>6. QED
    BY <2>2, <2>5 DEF Kept
<1>4. CASE b \in {Quote, Backslash}
  <2>1. PICK s : s = <<Backslash, b>>
    OBVIOUS
  <2>2. s \in Seq(Byte) /\ Len(s) = 2 /\ s[1] = Backslash
    BY <1>1, <2>1
  <2>3. Len(s) >= 2 /\ \A k \in 1..Len(s) : ~(k > 2)
    BY <2>2
  <2>4. s \in Kept
    BY <1>3, <2>2, <2>3
  <2>5. QED
    BY <1>4, <2>1, <2>4 DEF Char
<1>5. CASE b \notin {Quote, Backslash} /\ b \in Printable
  <2>1. PICK s : s = <<b>>
    OBVIOUS
  <2>2. s \in Seq(Byte) /\ Len(s) = 1 /\ s[1] = b
    BY <2>1
  <2> DEFINE w == [k \in 0..1 |-> "inside"]
  <2>3. w \in [0..1 -> States] /\ w[0] = "inside" /\ w[1] = "inside"
    BY DEF States
  <2> HIDE DEF w
  <2>4. ScanStep(w[0], b) = "inside"
    BY <1>2, <1>5, <2>3
  <2>5. \A k \in 1..1 : w[k] = ScanStep(w[k - 1], s[k])
    <3>1. TAKE k \in 1..1
    <3>2. k = 1 /\ k - 1 = 0
      OBVIOUS
    <3>3. QED
      BY <2>2, <2>3, <2>4, <3>2
  <2>6. Walk(s, w)
    BY <2>2, <2>3, <2>5 DEF Walk
  <2>7. s \in Kept
    BY <2>2, <2>3, <2>6 DEF Kept
  <2>8. QED
    BY <1>5, <2>1, <2>7 DEF Char
<1>6. CASE b \notin Printable
  <2>1. PICK d : d = Digits[b]
    OBVIOUS
  <2>2. d \in Seq(Printable \ {Quote, Backslash}) /\ d # <<>>
    BY <1>6, <2>1, CharacterAssumption
  <2>3. d \in Seq(Byte) /\ Len(d) \in Nat \ {0} /\ \A k \in 1..Len(d) : d[k] \notin {Quote, Backslash}
    BY <1>1, <2>2
  <2>4. PICK s : s = <<Backslash>> \o d
    OBVIOUS
  <2>5. /\ s \in Seq(Byte) /\ Len(s) = 1 + Len(d) /\ s[1] = Backslash
        /\ \A k \in 1..Len(s) : k > 1 => s[k] = d[k - 1]
    BY <1>1, <2>3, <2>4
  <2>6. \A k \in 1..Len(s) : k > 2 => s[k] \notin {Quote, Backslash}
    <3>1. TAKE k \in 1..Len(s)
    <3>2. k > 2 => k - 1 \in 1..Len(d) /\ k > 1
      BY <2>3, <2>5
    <3>3. QED
      BY <2>3, <2>5, <3>2
  <2>7. s \in Kept
    BY <1>3, <2>3, <2>5, <2>6
  <2>8. QED
    BY <1>1, <1>6, <2>1, <2>4, <2>7 DEF Char
<1>7. QED
  BY <1>4, <1>5, <1>6

\* Whatever the bytes are, the closing quote of a text is the one print_quoted adds.
LEMMA QuotedTrue ==
  ASSUME NEW bytes \in Seq(Byte)
  PROVE  Scan(print_quoted(bytes)) = "closed"
<1>1. PICK pieces : pieces = [i \in DOMAIN bytes |-> Char(bytes[i])]
  OBVIOUS
<1>2. PICK middle : middle = FlattenSeq(pieces)
  OBVIOUS
<1>3. print_quoted(bytes) = <<Quote>> \o middle \o <<Quote>>
  BY <1>1, <1>2 DEF print_quoted, Char
<1>4. pieces \in Seq(Kept) /\ Len(pieces) = Len(bytes)
  <2>1. \A i \in 1..Len(bytes) : Char(bytes[i]) \in Kept
    BY CharKept
  <2>2. DOMAIN bytes = 1..Len(bytes) /\ Len(bytes) \in Nat
    OBVIOUS
  <2>3. pieces \in [1..Len(bytes) -> Kept]
    BY <1>1, <2>1, <2>2
  <2>4. QED
    BY <2>2, <2>3, SequenceOf
<1>5. middle \in Kept
  <2>1. CASE pieces = <<>>
    <3>1. middle = <<>>
      BY <1>2, <2>1 DEF FlattenSeq
    <3> DEFINE w == [k \in 0..0 |-> "inside"]
    <3>2. w \in [0..0 -> States] /\ w[0] = "inside"
      BY DEF States
    <3> HIDE DEF w
    <3>3. Len(<<>>) = 0 /\ 1..0 = {} /\ <<>> \in Seq(Byte)
      OBVIOUS
    <3>4. Walk(<<>>, w)
      BY <3>2, <3>3 DEF Walk
    <3>5. QED
      BY <3>1, <3>2, <3>3, <3>4 DEF Kept
  <2>2. CASE pieces # <<>>
    <3>1. \A s, t \in Kept : s \o t \in Kept
      BY KeptJoined
    <3>2. QED
      BY <1>2, <1>4, <2>2, <3>1, FlattenClosed
  <2>3. QED
    BY <2>1, <2>2
<1>6. PICK g : Walk(middle, g) /\ g[0] = "inside" /\ g[Len(middle)] = "inside"
  BY <1>5 DEF Kept
<1>7. PICK n \in Nat : n = Len(middle) /\ middle \in Seq(Byte)
  BY <1>5 DEF Kept
<1>8. /\ g \in [0..n -> States] /\ \A k \in 1..n : g[k] = ScanStep(g[k - 1], middle[k])
  BY <1>6, <1>7 DEF Walk
<1>9. Quote \in Byte /\ Quote # Backslash
  BY CharacterAssumption
<1>10. PICK q : q = <<Quote>> \o middle \o <<Quote>>
  OBVIOUS
<1>11. /\ q \in Seq(Byte) /\ Len(q) = n + 2 /\ q[1] = Quote /\ q[n + 2] = Quote
       /\ \A k \in 1..n : q[k + 1] = middle[k]
  <2>1. PICK p : p = <<Quote>> \o middle
    OBVIOUS
  <2>2. /\ p \in Seq(Byte) /\ Len(p) = n + 1 /\ p[1] = Quote
        /\ \A k \in 1..n : p[k + 1] = middle[k]
    BY <1>7, <1>9, <2>1
  <2>3. q = p \o <<Quote>>
    BY <1>10, <2>1
  <2>4. /\ q \in Seq(Byte) /\ Len(q) = n + 2 /\ q[n + 2] = Quote
        /\ \A k \in 1..n + 1 : q[k] = p[k]
    BY <1>9, <2>2, <2>3
  <2>5. QED
    BY <2>2, <2>4
<1> DEFINE w == [k \in 0..n + 2 |-> IF k = 0 THEN "before"
                                    ELSE IF k = n + 2 THEN "closed" ELSE g[k - 1]]
<1>12. w \in [0..n + 2 -> States] /\ w[0] = "before" /\ w[n + 2] = "closed"
  <2>1. ASSUME NEW k \in 0..n + 2 PROVE w[k] \in States
    <3>1. k = 0 \/ k = n + 2 \/ k - 1 \in 0..n
      OBVIOUS
    <3>2. QED
      BY <1>8, <3>1 DEF States
  <2>2. w[0] = "before" /\ w[n + 2] = "closed"
    OBVIOUS
  <2>3. QED
    BY <2>1, <2>2
<1>13. \A k \in 0..n : w[k + 1] = g[k]
  <2>1. TAKE k \in 0..n
  <2>2. k + 1 \in 0..n + 2 /\ k + 1 # 0 /\ k + 1 # n + 2 /\ (k + 1) - 1 = k
    OBVIOUS
  <2>3. QED
    BY <2>2
<1> HIDE DEF w
<1>14. ScanStep("before", Quote) = "inside" /\ ScanStep("inside", Quote) = "closed"
  BY <1>9 DEF ScanStep
<1>15. ASSUME NEW k \in 1..n + 2 PROVE w[k] = ScanStep(w[k - 1], q[k])
  <2>1. CASE k = 1
    <3>1. w[1] = g[0]
      <4>1. 0 \in 0..n /\ 0 + 1 = 1
        OBVIOUS
      <4>2. QED
        BY <1>13, <4>1
    <3>2. k - 1 = 0
      BY <2>1
    <3>3. QED
      BY <1>6, <1>11, <1>12, <1>14, <2>1, <3>1, <3>2
  <2>2. CASE k = n + 2
    <3>1. w[n + 1] = g[n] /\ k - 1 = n + 1
      <4>1. n \in 0..n /\ (n + 2) - 1 = n + 1
        OBVIOUS
      <4>2. QED
        BY <1>13, <2>2, <4>1
    <3>2. w[k - 1] = "inside"
      BY <1>6, <1>7, <3>1
    <3>3. QED
      BY <1>11, <1>12, <1>14, <2>2, <3>2
  <2>3. CASE k # 1 /\ k # n + 2
    <3>1. PICK j \in 1..n : k = j + 1 /\ k - 1 = (j - 1) + 1
      <4>1. k - 1 \in 1..n /\ k = (k - 1) + 1 /\ k - 1 = ((k - 1) - 1) + 1
        BY <2>3
      <4>2. QED
        BY <4>1
    <3>2. j \in 0..n /\ j - 1 \in 0..n
      BY <3>1
    <3>3. w[k] = g[j] /\ w[k - 1] = g[j - 1] /\ q[k] = middle[j]
      BY <1>11, <1>13, <3>1, <3>2
    <3>4. QED
      BY <1>8, <3>1, <3>3
  <2>4. QED
    BY <2>1, <2>2, <2>3
<1>16. Walk(q, w)
  BY <1>11, <1>12, <1>15 DEF Walk
<1>17. Scan(q) = w[n + 2]
  BY <1>11, <1>12, <1>16, ScanIs
<1>18. QED
  BY <1>3, <1>10, <1>12, <1>17

-----------------------------------------------------------------------------
(* The invariant. *)

\* What an argument, or an element of a vector, can be shown as.
Items ==
  {Address(p) : p \in 0..(Long - 1)}
    \cup {Text(b, print_quoted(b), more) : b \in Seq(Byte), more \in BOOLEAN}
Lists == {List(items, end) : items \in Seq(Items), end \in {"open", "closed", "cut"}}
Shows == {Nothing} \cup {Number(n) : n \in Int} \cup Items \cup Lists

\* The memory and the call are ones a program can have.
MemoryInv ==
  /\ Bytes
  /\ DOMAIN mem \subseteq 0..(Long - 2)
  /\ call \in Calls

\* What has been read and shown at each place.
PlaceInv ==
  /\ pc \in {"regs", "arg", "element", "string", "result", "done"}
  /\ pc = "regs" => args = NoArgs
  /\ RegistersTrue
  /\ pc \in {"regs", "arg"} => shown = Nothing
  /\ pc \in {"element", "string"} =>
       call.type = "VSTR" /\ shown \in Lists /\ shown.end = "open"
  /\ element \in 0..(Long - 1)
  /\ shown \in Shows
  /\ answer.show \in {"nothing", "number", "error"}

\* The pointer whose string is read next is one of the vector.
ElementInv ==
  pc = "string" =>
    LET next == Len(shown.items) + 1
    IN  (\A a \in SlotOf(next) : There(a)) /\ element \in PointersAt(next) \ {0}

Inv ==
  /\ MemoryInv /\ PlaceInv /\ ElementInv
  /\ NumbersTrue /\ ErrorsTrue /\ BuffersTrue /\ StringsTrue /\ VectorsTrue

\* A call, field by field.
LEMMA CallFields ==
  ASSUME call \in Calls
  PROVE  /\ call.type \in BytesTypes \cup {"STR", "VSTR"} \cup ValueTypes
         /\ call.index \in 1..6 /\ (call.type \in BytesTypes => call.index < 6)
         /\ call.compat \in BOOLEAN
         /\ call.value \in 0..(Modulus(call.compat) - 1)
         /\ call.next \in 0..(Modulus(call.compat) - 1)
         /\ call.value \in 0..(Long - 1) /\ call.next \in 0..(Long - 1)
         /\ call.ret \in Int
         /\ 2 * call.ret \in (-Modulus(call.compat))..(Modulus(call.compat) - 1)
<1>1. Long \in Nat
  BY Widths
<1>2. QED
  BY <1>1 DEF Calls

\* Once the registers are read, the values print_arg works on are those of the call.
LEMMA Values ==
  ASSUME call \in Calls, RegistersTrue, pc \notin {"regs", "done"}
  PROVE  /\ value = call.value
         /\ call.type \in BytesTypes => count = call.next
         /\ args.compat = call.compat /\ args.rax = Register(call.ret, call.compat)
         /\ Result(args.rax, args.compat) = call.ret
<1>1. args = [arg |-> Passed, orig_ax |-> CallNumber,
              rax |-> Register(call.ret, call.compat), compat |-> call.compat]
  BY DEF RegistersTrue
<1>2. /\ args.arg = Passed /\ args.compat = call.compat
      /\ args.rax = Register(call.ret, call.compat)
  BY <1>1
<1>3. call.index \in 1..6
  BY CallFields
<1>4. value = call.value
  BY <1>2, <1>3 DEF value, Passed
<1>5. ASSUME call.type \in BytesTypes PROVE count = call.next
  <2>1. call.index + 1 \in 1..6 /\ call.index + 1 # call.index
    BY <1>3, <1>5, CallFields
  <2>2. QED
    BY <1>2, <2>1 DEF count, Passed
<1>6. Result(args.rax, args.compat) = call.ret
  <2>1. PICK m \in Nat \ {0} : m = Modulus(call.compat) /\ m % 2 = 0
    BY CallFields, Widths
  <2>2. PICK r \in Int : r = call.ret /\ 2 * r \in (-m)..(m - 1)
    BY <2>1, CallFields
  <2>3. Signed(r % m, m) = r /\ (r % m) % m = r % m
    <3>1. r % m \in 0..(m - 1)
      BY Division
    <3>2. (r % m) % m = r % m
      BY <3>1, Division
    <3>3. QED
      BY <2>1, <2>2, <3>2, SignedBack
  <2>4. args.rax = r % m
    BY <1>2, <2>1, <2>2 DEF Register
  <2>5. CASE call.compat = TRUE
    <3>1. m = Word
      BY <2>1, <2>5 DEF Modulus
    <3>2. Result(args.rax, args.compat) = Signed((r % m) % m, m)
      BY <1>2, <2>4, <2>5, <3>1 DEF Result, Low
    <3>3. QED
      BY <2>2, <2>3, <3>2
  <2>6. CASE call.compat = FALSE
    <3>1. m = Long
      BY <2>1, <2>6 DEF Modulus
    <3>2. Result(args.rax, args.compat) = Signed(r % m, m)
      BY <1>2, <2>4, <2>6, <3>1 DEF Result
    <3>3. QED
      BY <2>2, <2>3, <3>2
  <2>7. QED
    BY <2>5, <2>6, CallFields
<1>7. QED
  BY <1>2, <1>4, <1>5, <1>6

\* What an element of a vector looks like.
LEMMA ItemShape ==
  \A t \in Items :
    \/ t.show = "address"
    \/ t.show = "text" /\ t.bytes \in Seq(Byte) /\ t.quoted = print_quoted(t.bytes)
BY DEF Items, Address, Text

\* What a vector looks like.
LEMMA ListShape ==
  /\ \A l \in Lists : /\ l.show = "list" /\ l.items \in Seq(Items)
                      /\ l.end \in {"open", "closed", "cut"}
                      /\ \A end : [l EXCEPT !.end = end] = List(l.items, end)
                      /\ \A items : [l EXCEPT !.items = items] = List(items, l.end)
  /\ \A items \in Seq(Items), end \in {"open", "closed", "cut"} :
       /\ List(items, end) \in Lists /\ List(items, end).items = items
       /\ List(items, end).end = end
<1>1. ASSUME NEW l \in Lists
      PROVE  /\ l.show = "list" /\ l.items \in Seq(Items)
             /\ l.end \in {"open", "closed", "cut"}
             /\ \A end : [l EXCEPT !.end = end] = List(l.items, end)
             /\ \A items : [l EXCEPT !.items = items] = List(items, l.end)
  <2>1. PICK i \in Seq(Items), e \in {"open", "closed", "cut"} : l = List(i, e)
    BY DEF Lists
  <2>2. l = [show |-> "list", items |-> i, end |-> e]
    BY <2>1 DEF List
  <2>3. l.show = "list" /\ l.items = i /\ l.end = e
    BY <2>2
  <2>4. ASSUME NEW end PROVE [l EXCEPT !.end = end] = List(i, end)
    BY <2>2 DEF List
  <2>5. ASSUME NEW items PROVE [l EXCEPT !.items = items] = List(items, e)
    BY <2>2 DEF List
  <2>6. QED
    BY <2>3, <2>4, <2>5
<1>2. ASSUME NEW items \in Seq(Items), NEW end \in {"open", "closed", "cut"}
      PROVE  /\ List(items, end) \in Lists /\ List(items, end).items = items
             /\ List(items, end).end = end
  <2>1. List(items, end) \in Lists
    BY DEF Lists
  <2>2. QED
    BY <2>1 DEF List
<1>3. QED
  BY <1>1, <1>2

\* What print_string shows can be an element.
LEMMA PrintStringItem ==
  ASSUME NEW a \in 0..(Long - 1), Bytes
  PROVE  print_string(a) \in Items
<1>1. a \in Int
  BY Widths
<1>2. QED
  BY <1>1, PrintStringTrue DEF Items

\* What print_bytes shows can be an element.
LEMMA PrintBytesItem ==
  ASSUME NEW a \in 0..(Long - 1), NEW length \in Nat, Bytes
  PROVE  print_bytes(a, length) \in Items
<1>1. a \in Int
  BY Widths
<1>2. CASE print_bytes(a, length) = Address(a)
  BY <1>2 DEF Items
<1>3. CASE print_bytes(a, length) # Address(a)
  <2>1. PICK buf \in Seq(Byte) :
          print_bytes(a, length) = Text(buf, print_quoted(buf), Len(buf) < length)
    BY <1>1, <1>3, PrintBytesTrue
  <2>2. ASSUME NEW more \in BOOLEAN, more = (Len(buf) < length)
        PROVE  print_bytes(a, length) \in Items
    <3>1. print_bytes(a, length) = Text(buf, print_quoted(buf), more)
      BY <2>1, <2>2
    <3>2. QED
      BY <3>1 DEF Items
  <2>3. CASE Len(buf) < length
    <3>1. TRUE = (Len(buf) < length)
      BY <2>3
    <3>2. QED
      BY <2>2, <3>1
  <2>4. CASE ~(Len(buf) < length)
    <3>1. FALSE = (Len(buf) < length)
      BY <2>4
    <3>2. QED
      BY <2>2, <3>1
  <2>5. QED
    BY <2>3, <2>4
<1>4. QED
  BY <1>2, <1>3

\* Nothing that was there goes, and no byte that an address has held is forgotten.
LEMMA Grows ==
  ASSUME MemoryInv, [Next]_vars
  PROVE  /\ \A a : There(a) <=> There(a)'
         /\ \A a : There(a) => Held(a) \subseteq Held(a)'
         /\ MemoryInv' /\ call' = call
<1>1. CASE UNCHANGED inputs
  BY <1>1 DEF inputs, There, Held, MemoryInv, Bytes
<1>2. CASE Overwrite
  <2>1. PICK x \in call.shared, b \in Byte :
          mem' = [mem EXCEPT ![x] = b] /\ past' = past \cup {<<x, mem[x]>>}
    BY <1>2 DEF Overwrite
  <2>2. mapped' = mapped /\ call' = call
    BY <1>2 DEF Overwrite
  <2>3. DOMAIN mem' = DOMAIN mem
    BY <2>1
  <2>4. \A a \in DOMAIN mem : mem'[a] = IF a = x THEN b ELSE mem[a]
    BY <2>1
  <2>5. \A a : There(a) <=> There(a)'
    BY <2>2, <2>3 DEF There
  <2>6. ASSUME NEW a, There(a), NEW c \in Held(a) PROVE c \in Held(a)'
    <3>1. CASE c = mem[a] /\ a # x
      <4>1. mem'[a] = c
        BY <2>4, <2>6, <3>1 DEF There
      <4>2. QED
        BY <4>1 DEF Held
    <3>2. CASE c = mem[a] /\ a = x
      <4>1. <<a, c>> \in past' /\ <<a, c>>[1] = a /\ <<a, c>>[2] = c
        BY <2>1, <3>2
      <4>2. QED
        BY <4>1 DEF Held
    <3>3. CASE c # mem[a]
      <4>1. PICK w \in past : w[1] = a /\ w[2] = c
        BY <2>6, <3>3 DEF Held
      <4>2. w \in past'
        BY <2>1
      <4>3. QED
        BY <4>1, <4>2 DEF Held
    <3>4. QED
      BY <3>1, <3>2, <3>3
  <2>7. MemoryInv'
    BY <2>2, <2>3, <2>4 DEF MemoryInv, Bytes
  <2>8. QED
    BY <2>2, <2>5, <2>6, <2>7
<1>3. QED
  BY <1>1, <1>2 DEF Next, vars, inputs, ReadRegisters, RegistersGone, PrintScalar,
     PrintInputBytes, PrintOutputBytes, PrintString, StartArgv, ReadElement, PrintElement,
     PrintResult, Vanish, Over

\* A number is shown as a number.
LEMMA ScalarTyped ==
  ASSUME NEW type, NEW v \in Int, NEW compat \in BOOLEAN
  PROVE  Scalar(type, v, compat) \in Int
<1>1. Word \in Nat \ {0} /\ Long \in Nat \ {0}
  BY Widths
<1>2. \A x \in Int : Low(x) \in Int
  BY <1>1, Division DEF Low
<1>3. \A x, m \in Int : Signed(x, m) \in Int
  BY DEF Signed
<1>4. Low(v) \in Int /\ Signed(Low(v), Word) \in Int /\ Signed(v, Long) \in Int
  BY <1>1, <1>2, <1>3
<1>5. CASE type \in {"OFFSET", "LONG"}
  <2>1. Scalar(type, v, compat) = IF compat THEN Signed(Low(v), Word) ELSE Signed(v, Long)
    BY <1>5 DEF Scalar, HexTypes
  <2>2. QED
    BY <1>4, <2>1
<1>6. CASE type \in {"SIZE"} \cup HexTypes
  <2>1. Scalar(type, v, compat) = v
    BY <1>6 DEF Scalar, HexTypes
  <2>2. QED
    BY <2>1
<1>7. CASE type = "UINT"
  <2>1. Scalar(type, v, compat) = Low(v)
    BY <1>7 DEF Scalar, HexTypes
  <2>2. QED
    BY <1>4, <2>1
<1>8. CASE type \notin {"OFFSET", "LONG"} \cup ({"SIZE"} \cup HexTypes) \cup {"UINT"}
  <2>1. Scalar(type, v, compat) = Signed(Low(v), Word)
    BY <1>8 DEF Scalar
  <2>2. QED
    BY <1>4, <2>1
<1>9. QED
  BY <1>5, <1>6, <1>7, <1>8

\* What print_argv reads of a pointer is a number that a register can hold.
LEMMA PointerOfBytes ==
  ASSUME NEW bytes \in Seq(Byte), Len(bytes) \in {1, 2}
  PROVE  /\ Pointer(bytes) \in 0..(Long - 1)
         /\ Pointer(bytes) = IF Len(bytes) = 1 THEN bytes[1] ELSE bytes[1] + Base * bytes[2]
<1>1. Byte \subseteq Nat
  BY Widths DEF Byte
<1>2. bytes \in Seq(Nat)
  BY <1>1, SeqMonotonic
<1>3. CASE Len(bytes) = 1
  <2>1. bytes[1] \in Byte
    BY <1>3
  <2>2. QED
    BY <1>2, <1>3, <2>1, PointerOfOne, PointerFits
<1>4. CASE Len(bytes) = 2
  <2>1. bytes[1] \in Byte /\ bytes[2] \in Byte
    BY <1>4
  <2>2. QED
    BY <1>2, <1>4, <2>1, PointerOfTwo, PointerFits
<1>5. QED
  BY <1>3, <1>4

\* Every step keeps what has been read and shown at each place.
LEMMA PlaceStep ==
  ASSUME MemoryInv, PlaceInv, ElementInv, [Next]_vars
  PROVE  PlaceInv'
<1> USE DEF inputs
<1>1. MemoryInv' /\ call' = call /\ call \in Calls /\ Bytes
  BY Grows DEF MemoryInv
<1>2. Long \in Nat \ {0}
  BY Widths
<1>3. /\ call.value \in 0..(Long - 1) /\ call.next \in 0..(Long - 1) /\ call.compat \in BOOLEAN
      /\ call.ret \in Int
  BY <1>1, CallFields
<1>4. Address(call.value) \in Shows
  BY <1>3 DEF Shows, Items
<1>5. CASE UNCHANGED <<call, args, pc, element, shown, answer>>
  BY <1>5 DEF PlaceInv, RegistersTrue, Passed, CallNumber, Register, Modulus
<1>6. CASE ReadRegisters
  <2>1. args' = [arg |-> Passed, orig_ax |-> CallNumber,
                 rax |-> Register(call.ret, call.compat), compat |-> call.compat]
    BY <1>3, <1>6, RegistersRead DEF ReadRegisters
  <2>2. RegistersTrue'
    BY <1>1, <2>1 DEF RegistersTrue, Passed, CallNumber, Register, Modulus
  <2>3. QED
    BY <1>6, <2>2 DEF ReadRegisters, PlaceInv
<1>7. ASSUME pc \notin {"regs", "done"}, args' = args, element' = element, answer' = answer,
             pc' \in {"element", "string", "result", "done"}, shown' \in Shows,
             pc' \in {"element", "string"} =>
               call.type = "VSTR" /\ shown' \in Lists /\ shown'.end = "open"
      PROVE  PlaceInv'
  <2>1. RegistersTrue'
    BY <1>1, <1>7 DEF PlaceInv, RegistersTrue, Passed, CallNumber, Register, Modulus
  <2>2. QED
    BY <1>1, <1>7, <2>1 DEF PlaceInv
<1>8. CASE RegistersGone
  BY <1>8 DEF RegistersGone, PlaceInv, RegistersTrue
<1>9. CASE PrintScalar
  <2>1. PICK n : n = Scalar(call.type, value, args.compat)
    OBVIOUS
  <2>2. n \in Int
    <3>1. value = call.value /\ args.compat = call.compat
      BY <1>1, <1>9, Values DEF PrintScalar, PlaceInv
    <3>2. call.value \in Int
      BY <1>2, <1>3
    <3>3. n = Scalar(call.type, call.value, call.compat)
      BY <2>1, <3>1
    <3>4. QED
      BY <1>3, <3>2, <3>3, ScalarTyped
  <2>3. shown' = Number(n)
    BY <1>9, <2>1 DEF PrintScalar
  <2>4. shown' \in Shows
    BY <2>2, <2>3 DEF Shows
  <2>5. QED
    BY <1>7, <1>9, <2>4 DEF PrintScalar
<1>10. CASE PrintInputBytes
  <2>1. value = call.value /\ count = call.next
    BY <1>1, <1>10, Values DEF PrintInputBytes, PlaceInv, BytesTypes
  <2>2. shown' = print_bytes(call.value, call.next) /\ call.next \in Nat
    BY <1>2, <1>3, <1>10, <2>1 DEF PrintInputBytes
  <2>3. shown' \in Shows
    BY <1>1, <1>3, <2>2, PrintBytesItem DEF Shows
  <2>4. QED
    BY <1>7, <1>10, <2>3 DEF PrintInputBytes
<1>11. CASE PrintOutputBytes
  <2>1. value = call.value /\ count = call.next /\ Result(args.rax, args.compat) = call.ret
    BY <1>1, <1>11, Values DEF PrintOutputBytes, PlaceInv, BytesTypes
  <2>2. shown' = IF call.ret < 0 THEN Address(call.value)
                 ELSE print_bytes(call.value, Min({call.ret, call.next}))
    BY <1>11, <2>1 DEF PrintOutputBytes
  <2>3. shown' \in Shows
    <3>1. CASE call.ret < 0
      BY <1>4, <2>2, <3>1
    <3>2. CASE ~(call.ret < 0)
      <4>1. PICK m : m = Min({call.ret, call.next})
        OBVIOUS
      <4>2. call.next \in Nat /\ call.ret \in Nat
        BY <1>2, <1>3, <3>2
      <4>3. m \in Nat
        BY <4>1, <4>2, MinOfTwo
      <4>4. shown' = print_bytes(call.value, m)
        BY <2>2, <3>2, <4>1
      <4>5. QED
        BY <1>1, <1>3, <4>3, <4>4, PrintBytesItem DEF Shows
    <3>3. QED
      BY <3>1, <3>2
  <2>4. QED
    BY <1>7, <1>11, <2>3 DEF PrintOutputBytes
<1>12. CASE PrintString
  <2>1. value = call.value
    BY <1>1, <1>12, Values DEF PrintString, PlaceInv
  <2>2. shown' \in Shows
    BY <1>1, <1>3, <1>12, <2>1, PrintStringItem DEF PrintString, Shows
  <2>3. QED
    BY <1>7, <1>12, <2>2 DEF PrintString
<1>13. CASE StartArgv
  <2>1. shown' = List(<<>>, "open") /\ <<>> \in Seq(Items)
    BY <1>13 DEF StartArgv
  <2>2. shown' \in Lists /\ shown'.end = "open"
    BY <2>1, ListShape
  <2>3. shown' \in Shows
    BY <2>2 DEF Shows
  <2>4. QED
    BY <1>7, <1>13, <2>2, <2>3 DEF StartArgv
<1>14. CASE ReadElement
  <2>1. /\ pc = "element" /\ call.type = "VSTR" /\ shown \in Lists /\ shown.end = "open"
        /\ args' = args /\ answer' = answer /\ shown \in Shows /\ element \in 0..(Long - 1)
    BY <1>14 DEF ReadElement, PlaceInv
  <2>2. PICK i, w, bytes : i = Len(shown.items) /\ w = Width(args.compat)
                           /\ bytes = read_tracee((value + i * w) % Long, w)
    OBVIOUS
  <2>3. \/ /\ \E end \in {"cut", "closed"} : shown' = [shown EXCEPT !.end = end]
           /\ pc' = "result" /\ element' = element
        \/ /\ shown' = Address(value) /\ pc' = "result" /\ element' = element
        \/ /\ Len(bytes) = w /\ element' = Pointer(bytes) /\ pc' = "string" /\ shown' = shown
    BY <1>14, <2>2 DEF ReadElement
  <2>4. CASE \E end \in {"cut", "closed"} : shown' = [shown EXCEPT !.end = end]
                                             /\ pc' = "result" /\ element' = element
    <3>1. PICK end \in {"cut", "closed"} : shown' = [shown EXCEPT !.end = end]
      BY <2>4
    <3>2. shown' = List(shown.items, end) /\ shown.items \in Seq(Items)
      BY <2>1, <3>1, ListShape
    <3>3. shown' \in Shows
      BY <3>2, ListShape DEF Shows
    <3>4. QED
      BY <1>7, <2>1, <2>4, <3>3
  <2>5. CASE shown' = Address(value) /\ pc' = "result" /\ element' = element
    <3>1. value = call.value
      BY <1>1, <2>1, Values DEF PlaceInv
    <3>2. shown' \in Shows
      BY <1>4, <2>5, <3>1
    <3>3. QED
      BY <1>7, <2>1, <2>5, <3>2
  <2>6. CASE Len(bytes) = w /\ element' = Pointer(bytes) /\ pc' = "string" /\ shown' = shown
    <3>1. RegistersTrue'
      BY <1>1, <2>1, <2>6 DEF PlaceInv, RegistersTrue, Passed, CallNumber, Register, Modulus
    <3>2. value = call.value /\ args.compat = call.compat
      BY <1>1, <2>1, Values DEF PlaceInv
    <3>3. w = IF call.compat THEN 1 ELSE 2
      BY <2>2, <3>2 DEF Width
    <3>4. PICK a \in Int : a = (value + i * w) % Long
      <4>1. i \in Nat
        BY <2>1, <2>2, ListShape
      <4>2. value + i * w \in Int
        BY <1>3, <3>2, <3>3, <4>1
      <4>3. QED
        BY <1>2, <4>2, Division
    <3>5. bytes \in Seq(Byte)
      BY <1>1, <2>2, <3>3, <3>4, ReadTrue
    <3>6. element' \in 0..(Long - 1)
      BY <2>6, <3>3, <3>5, PointerOfBytes
    <3>7. QED
      BY <1>1, <2>1, <2>6, <3>1, <3>6 DEF PlaceInv
  <2>7. QED
    BY <2>3, <2>4, <2>5, <2>6
<1>15. CASE PrintElement
  <2>1. /\ pc = "string" /\ call.type = "VSTR" /\ shown \in Lists /\ shown.end = "open"
        /\ element \in 0..(Long - 1)
    BY <1>15 DEF PrintElement, PlaceInv
  <2>2. PICK item \in Items : item = print_string(element)
    BY <1>1, <2>1, PrintStringItem
  <2>3. PICK items : items = Append(shown.items, item)
    OBVIOUS
  <2>4. shown' = List(items, "open") /\ items \in Seq(Items)
    <3>1. shown' = [shown EXCEPT !.items = items]
      BY <1>15, <2>2, <2>3 DEF PrintElement
    <3>2. shown.items \in Seq(Items)
      BY <2>1, ListShape
    <3>3. items \in Seq(Items)
      BY <2>3, <3>2
    <3>4. shown' = List(items, shown.end)
      BY <2>1, <3>1, ListShape
    <3>5. QED
      BY <2>1, <3>3, <3>4
  <2>5. shown' \in Lists /\ shown'.end = "open"
    BY <2>4, ListShape
  <2>6. shown' \in Shows
    BY <2>5 DEF Shows
  <2>7. QED
    BY <1>7, <1>15, <2>1, <2>5, <2>6 DEF PrintElement
<1>16. CASE PrintResult
  <2>1. answer'.show \in {"nothing", "number", "error"}
    BY <1>16 DEF PrintResult, Error, Number
  <2>2. QED
    BY <1>1, <1>16, <2>1 DEF PrintResult, PlaceInv, RegistersTrue
<1>17. QED
  BY <1>5, <1>6, <1>8, <1>9, <1>10, <1>11, <1>12, <1>13, <1>14, <1>15, <1>16
     DEF Next, vars, Vanish, Overwrite, Over

-----------------------------------------------------------------------------
(* Numbers and results. *)

\* The ranges of the C types have as many numbers as their width says.
LEMMA RangeSizes ==
  ASSUME NEW m \in Nat \ {0}, m % 2 = 0
  PROVE  Cardinality((-(m \div 2))..((m \div 2) - 1)) = m /\ Cardinality(0..(m - 1)) = m
<1>1. PICK h \in Nat : h = m \div 2 /\ m = 2 * h
  BY Halves
<1>2. /\ -h \in Int /\ h - 1 \in Int /\ ~(-h > h - 1) /\ (h - 1) - (-h) + 1 = m
      /\ 0 \in Int /\ m - 1 \in Int /\ ~(0 > m - 1) /\ (m - 1) - 0 + 1 = m
  BY <1>1
<1>3. Cardinality((-h)..(h - 1)) = m
  BY <1>2, FS_Interval
<1>4. Cardinality(0..(m - 1)) = m
  BY <1>2, FS_Interval
<1>5. QED
  BY <1>1, <1>3, <1>4

\* Scalar gives the number the kernel takes the register as.
LEMMA ScalarTrue ==
  ASSUME NEW type \in ValueTypes, NEW compat \in BOOLEAN, NEW v \in 0..(Modulus(compat) - 1),
         NEW n, n = Scalar(type, v, compat),
         NEW range, range = IF compat THEN Range32(type) ELSE Range64(type)
  PROVE  n \in range /\ (n - v) % Cardinality(range) = 0
<1>1. /\ Word \in Nat \ {0} /\ Long \in Nat \ {0} /\ Word % 2 = 0 /\ Long % 2 = 0
      /\ v \in Int
  BY Widths
<1>2. PICK signed : signed = [m \in {Word, Long} |-> (-(m \div 2))..((m \div 2) - 1)]
  OBVIOUS
<1>3. \A m \in {Word, Long} : /\ Cardinality(signed[m]) = m /\ Cardinality(0..(m - 1)) = m
                               /\ signed[m] = (-(m \div 2))..((m \div 2) - 1)
  <2>1. TAKE m \in {Word, Long}
  <2>2. m \in Nat \ {0} /\ m % 2 = 0
    BY <1>1
  <2>3. Cardinality((-(m \div 2))..((m \div 2) - 1)) = m /\ Cardinality(0..(m - 1)) = m
    BY <2>2, RangeSizes
  <2>4. signed[m] = (-(m \div 2))..((m \div 2) - 1)
    BY <1>2
  <2>5. QED
    BY <2>3, <2>4
<1>4. \A m \in {Word, Long} : /\ Signed(v % m, m) \in signed[m] /\ (Signed(v % m, m) - v) % m = 0
                               /\ v % m \in 0..(m - 1) /\ ((v % m) - v) % m = 0
  <2>1. TAKE m \in {Word, Long}
  <2>2. m \in Nat \ {0} /\ m % 2 = 0
    BY <1>1
  <2>3. /\ Signed(v % m, m) \in (-(m \div 2))..((m \div 2) - 1)
        /\ (Signed(v % m, m) - v) % m = 0 /\ ((v % m) - v) % m = 0
    BY <1>1, <2>2, SignedTrue
  <2>4. v % m \in 0..(m - 1)
    BY <1>1, <2>2, Division
  <2>5. QED
    BY <1>3, <2>3, <2>4
<1>5. compat => Modulus(compat) = Word /\ v % Word = v
  <2>1. compat => Modulus(compat) = Word
    BY DEF Modulus
  <2>2. QED
    BY <1>1, <2>1, Division
<1>6. ~compat => Modulus(compat) = Long /\ v % Long = v
  <2>1. ~compat => Modulus(compat) = Long
    BY DEF Modulus
  <2>2. QED
    BY <1>1, <2>1, Division
<1>7. CASE type \in {"OFFSET", "LONG"}
  <2>1. /\ n = IF compat THEN Signed(v % Word, Word) ELSE Signed(v, Long)
        /\ range = IF compat THEN signed[Word] ELSE signed[Long]
    BY <1>3, <1>7 DEF Scalar, HexTypes, Low, Range32, Range64
  <2>2. CASE compat
    BY <1>3, <1>4, <2>1, <2>2
  <2>3. CASE ~compat
    BY <1>3, <1>4, <1>6, <2>1, <2>3
  <2>4. QED
    BY <2>2, <2>3
<1>8. CASE type \in IntTypes
  <2>1. n = Signed(v % Word, Word) /\ range = signed[Word]
    BY <1>3, <1>8 DEF Scalar, HexTypes, IntTypes, Low, Range32, Range64
  <2>2. QED
    BY <1>3, <1>4, <2>1
<1>9. CASE type = "UINT"
  <2>1. n = v % Word /\ range = 0..(Word - 1)
    BY <1>9 DEF Scalar, HexTypes, IntTypes, Low, Range32, Range64
  <2>2. QED
    BY <1>3, <1>4, <2>1
<1>10. CASE type \in {"SIZE"} \cup HexTypes
  <2>1. /\ n = v
        /\ range = IF compat THEN 0..(Word - 1) ELSE 0..(Long - 1)
    BY <1>10 DEF Scalar, HexTypes, IntTypes, Range32, Range64
  <2>2. CASE compat
    BY <1>3, <1>4, <1>5, <2>1, <2>2
  <2>3. CASE ~compat
    BY <1>3, <1>4, <1>6, <2>1, <2>3
  <2>4. QED
    BY <2>2, <2>3
<1>11. QED
  BY <1>7, <1>8, <1>9, <1>10 DEF ValueTypes

\* Every step keeps NumbersTrue.
LEMMA NumbersStep ==
  ASSUME Inv, [Next]_vars
  PROVE  NumbersTrue'
<1>1. /\ MemoryInv /\ PlaceInv /\ NumbersTrue /\ call' = call /\ call \in Calls /\ Bytes
  BY Grows DEF Inv, MemoryInv
<1>2. CASE shown' = shown
  BY <1>1, <1>2 DEF NumbersTrue, Range32, Range64
<1>3. CASE shown'.show # "number"
  BY <1>3 DEF NumbersTrue
<1>4. CASE PrintScalar
  <2>1. value = call.value /\ args.compat = call.compat
    BY <1>1, <1>4, Values DEF PrintScalar, PlaceInv
  <2>2. PICK n, range : /\ n = Scalar(call.type, call.value, call.compat)
                        /\ range = IF call.compat THEN Range32(call.type) ELSE Range64(call.type)
    OBVIOUS
  <2>3. /\ call.type \in ValueTypes /\ call.compat \in BOOLEAN
        /\ call.value \in 0..(Modulus(call.compat) - 1)
    BY <1>1, <1>4, CallFields DEF PrintScalar
  <2>4. n \in range /\ (n - call.value) % Cardinality(range) = 0
    BY <2>2, <2>3, ScalarTrue
  <2>5. shown' = Number(n)
    BY <1>4, <2>1, <2>2 DEF PrintScalar
  <2>6. shown'.value = n
    BY <2>5 DEF Number
  <2>7. QED
    BY <1>1, <2>2, <2>4, <2>6 DEF NumbersTrue, Range32, Range64
<1>5. CASE PrintInputBytes \/ PrintOutputBytes \/ PrintString
  <2>1. PlaceInv'
    BY <1>1, PlaceStep DEF Inv
  <2>2. shown' \in Items \/ shown'.show = "address"
    <3>1. /\ call.value \in 0..(Long - 1) /\ call.next \in Nat /\ call.ret \in Int
      <4>1. Long \in Nat
        BY Widths
      <4>2. QED
        BY <1>1, <4>1, CallFields
    <3>2. CASE PrintInputBytes
      <4>1. value = call.value /\ count = call.next
        BY <1>1, <3>2, Values DEF PrintInputBytes, PlaceInv, BytesTypes
      <4>2. QED
        BY <1>1, <3>1, <3>2, <4>1, PrintBytesItem DEF PrintInputBytes
    <3>3. CASE PrintOutputBytes
      <4>1. value = call.value /\ count = call.next /\ Result(args.rax, args.compat) = call.ret
        BY <1>1, <3>3, Values DEF PrintOutputBytes, PlaceInv, BytesTypes
      <4>2. shown' = IF call.ret < 0 THEN Address(call.value)
                     ELSE print_bytes(call.value, Min({call.ret, call.next}))
        BY <3>3, <4>1 DEF PrintOutputBytes
      <4>3. CASE call.ret < 0
        BY <4>2, <4>3 DEF Address
      <4>4. CASE ~(call.ret < 0)
        <5>1. PICK m : m = Min({call.ret, call.next})
          OBVIOUS
        <5>2. m \in Nat
          BY <3>1, <4>4, <5>1, MinOfTwo
        <5>3. shown' = print_bytes(call.value, m)
          BY <4>2, <4>4, <5>1
        <5>4. QED
          BY <1>1, <3>1, <5>2, <5>3, PrintBytesItem
      <4>5. QED
        BY <4>3, <4>4
    <3>4. CASE PrintString
      <4>1. value = call.value
        BY <1>1, <3>4, Values DEF PrintString, PlaceInv
      <4>2. QED
        BY <1>1, <3>1, <3>4, <4>1, PrintStringItem DEF PrintString
    <3>5. QED
      BY <1>5, <3>2, <3>3, <3>4
  <2>3. shown'.show \in {"address", "text"}
    BY <2>2, ItemShape
  <2>4. QED
    BY <1>3, <2>3
<1>6. CASE StartArgv \/ ReadElement \/ PrintElement
  <2>1. CASE StartArgv
    <3>1. shown'.show = "list"
      BY <2>1 DEF StartArgv, List
    <3>2. QED
      BY <1>3, <3>1
  <2>2. CASE ReadElement
    <3>1. shown \in Lists
      BY <1>1, <2>2 DEF ReadElement, PlaceInv
    <3>2. \/ \E end : shown' = [shown EXCEPT !.end = end]
          \/ shown' = Address(value)
          \/ shown' = shown
      BY <2>2 DEF ReadElement
    <3>3. shown'.show # "number" \/ shown' = shown
      <4>1. CASE \E end : shown' = [shown EXCEPT !.end = end]
        <5>1. PICK end : shown' = [shown EXCEPT !.end = end]
          BY <4>1
        <5>2. shown' = List(shown.items, end)
          BY <3>1, <5>1, ListShape
        <5>3. QED
          BY <5>2 DEF List
      <4>2. QED
        BY <3>2, <4>1 DEF Address
    <3>4. QED
      BY <1>2, <1>3, <3>3
  <2>3. CASE PrintElement
    <3>1. shown \in Lists
      BY <1>1, <2>3 DEF PrintElement, PlaceInv
    <3>2. PICK items : shown' = [shown EXCEPT !.items = items]
      BY <2>3 DEF PrintElement
    <3>3. shown'.show # "number"
      BY <3>1, <3>2, ListShape DEF List
    <3>4. QED
      BY <1>3, <3>3
  <2>4. QED
    BY <1>6, <2>1, <2>2, <2>3
<1>7. QED
  BY <1>2, <1>4, <1>5, <1>6 DEF Next, vars, ReadRegisters, RegistersGone, PrintResult,
     Vanish, Overwrite, Over

\* Every step keeps ErrorsTrue.
LEMMA ErrorsStep ==
  ASSUME Inv, [Next]_vars
  PROVE  ErrorsTrue'
<1>1. /\ MemoryInv /\ PlaceInv /\ ErrorsTrue /\ call' = call /\ call \in Calls
  BY Grows DEF Inv, MemoryInv
<1>2. CASE pc' # "done"
  BY <1>2 DEF ErrorsTrue
<1>3. CASE UNCHANGED vars
  BY <1>1, <1>3 DEF ErrorsTrue, vars, Register, Modulus
<1>4. CASE RegistersGone
  BY <1>1, <1>4 DEF RegistersGone, PlaceInv, ErrorsTrue
<1>5. CASE PrintResult
  <2>1. Result(args.rax, args.compat) = call.ret /\ args.rax = Register(call.ret, call.compat)
    BY <1>1, <1>5, Values DEF PrintResult, PlaceInv
  <2>2. PICK r \in Int : r = call.ret
    BY <1>1, CallFields
  <2>3. answer' = IF r < 0 /\ r >= -MaxErrno THEN Error(-r)
                  ELSE Number(Register(call.ret, call.compat))
    BY <1>5, <2>1, <2>2 DEF PrintResult
  <2>4. (r < 0 /\ r >= -MaxErrno) <=> r \in (-MaxErrno)..(-1)
    BY ScaleAssumption
  <2>5. QED
    BY <1>1, <2>2, <2>3, <2>4 DEF ErrorsTrue, Register, Modulus
<1>6. CASE ReadElement
  <2>1. pc' \in {"result", "string"}
    BY <1>6 DEF ReadElement
  <2>2. QED
    BY <1>2, <2>1
<1>7. QED
  BY <1>2, <1>3, <1>4, <1>5, <1>6 DEF Next, Over, ReadRegisters, PrintScalar,
     PrintInputBytes, PrintOutputBytes, PrintString, StartArgv, PrintElement, Vanish, Overwrite

-----------------------------------------------------------------------------
(* Buffers and strings. *)

\* What a buffer may be shown as.
BufferTrue(t) ==
  \/ t = Address(call.value)
  \/ /\ t.show = "text" /\ IsAt(t, call.value)
     /\ call.type = "OUTPUT_BYTES" => call.ret >= 0
     /\ Len(t.bytes) <= Meant
     /\ t.more = (Len(t.bytes) # Meant)
     /\ t.more => Len(t.bytes) = ByteCap \/ ~There(call.value + Len(t.bytes))

\* A text stays where it is, whatever others write over it.
LEMMA IsAtKept ==
  ASSUME MemoryInv, [Next]_vars, NEW t, NEW a, IsAt(t, a)
  PROVE  IsAt(t, a)'
<1>1. \A x : (There(x) <=> There(x)') /\ (There(x) => Held(x) \subseteq Held(x)')
  BY Grows
<1>2. ASSUME NEW k \in DOMAIN t.bytes
      PROVE  There(a + k - 1)' /\ t.bytes[k] \in Held(a + k - 1)'
  <2>1. PICK x : x = a + k - 1
    OBVIOUS
  <2>2. There(x) /\ t.bytes[k] \in Held(x)
    BY <2>1 DEF IsAt
  <2>3. There(x)' /\ t.bytes[k] \in Held(x)'
    BY <1>1, <2>2
  <2>4. QED
    BY <2>1, <2>3
<1>3. QED
  BY <1>2 DEF IsAt

\* A buffer stays true.
LEMMA BufferKept ==
  ASSUME MemoryInv, [Next]_vars, NEW t, BufferTrue(t)
  PROVE  BufferTrue(t)'
<1>1. call' = call
  BY Grows
<1>2. PICK a : a = call.value
  OBVIOUS
<1>3. CASE t = Address(call.value)
  BY <1>1, <1>3 DEF BufferTrue
<1>4. CASE t # Address(call.value)
  <2>1. /\ t.show = "text" /\ IsAt(t, a)
        /\ call.type = "OUTPUT_BYTES" => call.ret >= 0
        /\ Len(t.bytes) <= Meant
        /\ t.more = (Len(t.bytes) # Meant)
        /\ t.more => Len(t.bytes) = ByteCap \/ ~There(a + Len(t.bytes))
    BY <1>2, <1>4 DEF BufferTrue
  <2>2. Meant' = Meant /\ a = call'.value
    BY <1>1, <1>2 DEF Meant
  <2>3. IsAt(t, a)'
    BY <2>1, IsAtKept
  <2>4. PICK x : x = a + Len(t.bytes)
    OBVIOUS
  <2>5. There(x) <=> There(x)'
    BY Grows
  <2>6. t.more => Len(t.bytes) = ByteCap \/ ~There(a + Len(t.bytes))'
    BY <2>1, <2>4, <2>5
  <2>7. QED
    BY <1>1, <2>1, <2>2, <2>3, <2>6 DEF BufferTrue
<1>5. QED
  BY <1>3, <1>4

\* What an output has filled in is the smaller of the result and the count.
LEMMA MeantIs ==
  ASSUME call \in Calls
  PROVE  /\ Meant \in Nat
         /\ call.type = "INPUT_BYTES" => Meant = call.next
         /\ call.type = "OUTPUT_BYTES" /\ call.ret >= 0 => Meant = Min({call.ret, call.next})
<1>1. call.next \in Nat /\ call.ret \in Int
  <2>1. Long \in Nat
    BY Widths
  <2>2. QED
    BY <2>1, CallFields
<1>2. PICK m : m = IF call.ret <= call.next THEN call.ret ELSE call.next
  OBVIOUS
<1>3. m \in Int /\ m = Min({call.ret, call.next})
  BY <1>1, <1>2, MinOfTwo
<1>4. (0..(call.next - 1)) \cap (0..(call.ret - 1)) = 0..(m - 1)
  <2>1. (0..(call.next - 1)) \cap (0..(call.ret - 1)) \subseteq 0..(m - 1)
    BY <1>1, <1>2
  <2>2. 0..(m - 1) \subseteq (0..(call.next - 1)) \cap (0..(call.ret - 1))
    BY <1>1, <1>2
  <2>3. QED
    BY <2>1, <2>2
<1>5. Cardinality(0..(m - 1)) = IF 0 > m - 1 THEN 0 ELSE m
  <2>1. 0 \in Int /\ m - 1 \in Int /\ (m - 1) - 0 + 1 = m
    BY <1>3
  <2>2. QED
    BY <2>1, FS_Interval
<1>6. Meant = IF call.type = "INPUT_BYTES" THEN call.next ELSE Cardinality(0..(m - 1))
  BY <1>4 DEF Meant
<1>7. call.ret >= 0 => Cardinality(0..(m - 1)) = m
  BY <1>1, <1>2, <1>5
<1>8. Cardinality(0..(m - 1)) \in Nat
  BY <1>3, <1>5
<1>9. QED
  BY <1>1, <1>3, <1>6, <1>7, <1>8

\* print_bytes, asked for what is meant, shows what a buffer may be shown as.
LEMMA BufferShown ==
  ASSUME MemoryInv, call.type = "OUTPUT_BYTES" => call.ret >= 0
  PROVE  BufferTrue(print_bytes(call.value, Meant))
<1>1. PICK a \in Int, n \in Nat : a = call.value /\ n = Meant
  <2>1. call.value \in Int /\ Meant \in Nat
    BY CallFields, MeantIs, Widths DEF MemoryInv
  <2>2. QED
    BY <2>1
<1>2. PICK t : t = print_bytes(a, n)
  OBVIOUS
<1>3. CASE t = Address(a)
  BY <1>1, <1>2, <1>3 DEF BufferTrue
<1>4. CASE t # Address(a)
  <2>1. PICK buf \in Seq(Byte) :
          /\ t = Text(buf, print_quoted(buf), Len(buf) < n)
          /\ IsAt(t, a) /\ Len(buf) <= n
          /\ Len(buf) < n => Len(buf) = ByteCap \/ ~There(a + Len(buf))
    BY <1>2, <1>4, PrintBytesTrue DEF MemoryInv
  <2>2. PICK m \in Nat : m = Len(buf)
    OBVIOUS
  <2>3. t.show = "text" /\ t.bytes = buf /\ t.more = (m < n)
    BY <2>1, <2>2 DEF Text
  <2>4. (m < n) <=> (m # n)
    BY <2>1, <2>2
  <2>5. t.more = (Len(t.bytes) # n)
    BY <2>2, <2>3, <2>4
  <2>6. t.more => Len(t.bytes) = ByteCap \/ ~There(a + Len(t.bytes))
    BY <2>1, <2>2, <2>3
  <2>7. Len(t.bytes) <= n
    BY <2>1, <2>3
  <2>8. QED
    BY <1>1, <1>2, <2>1, <2>3, <2>5, <2>6, <2>7 DEF BufferTrue
<1>5. QED
  BY <1>1, <1>2, <1>3, <1>4

\* Every step keeps BuffersTrue.
LEMMA BuffersStep ==
  ASSUME Inv, [Next]_vars
  PROVE  BuffersTrue'
<1>1. /\ MemoryInv /\ PlaceInv /\ BuffersTrue /\ call' = call /\ call \in Calls
  BY Grows DEF Inv, MemoryInv
<1>2. ASSUME pc = "result", pc' = "result", shown' = shown PROVE BuffersTrue'
  <2>1. CASE call.type \in BytesTypes
    <3>1. PICK t : t = shown
      OBVIOUS
    <3>2. BufferTrue(t)
      BY <1>1, <1>2, <2>1, <3>1 DEF BuffersTrue, BufferTrue
    <3>3. BufferTrue(t)'
      BY <1>1, <3>2, BufferKept
    <3>4. t = shown'
      BY <1>2, <3>1
    <3>5. QED
      BY <3>3, <3>4 DEF BuffersTrue, BufferTrue
  <2>2. CASE call.type \notin BytesTypes
    BY <1>1, <2>2 DEF BuffersTrue
  <2>3. QED
    BY <2>1, <2>2
<1>3. ASSUME pc' # "result" \/ call.type \notin BytesTypes PROVE BuffersTrue'
  BY <1>1, <1>3 DEF BuffersTrue
<1>4. ASSUME NEW t, shown' = t, BufferTrue(t) PROVE BuffersTrue'
  <2>1. BufferTrue(t)'
    BY <1>1, <1>4, BufferKept
  <2>2. QED
    BY <1>4, <2>1 DEF BuffersTrue, BufferTrue
<1>5. CASE PrintInputBytes
  <2>1. value = call.value /\ count = call.next /\ call.type = "INPUT_BYTES"
    BY <1>1, <1>5, Values DEF PrintInputBytes, PlaceInv, BytesTypes
  <2>2. call.next = Meant
    BY <1>1, <2>1, MeantIs
  <2>3. shown' = print_bytes(call.value, Meant)
    BY <1>5, <2>1, <2>2 DEF PrintInputBytes
  <2>4. BufferTrue(print_bytes(call.value, Meant))
    BY <1>1, <2>1, BufferShown
  <2>5. QED
    BY <1>4, <2>3, <2>4
<1>6. CASE PrintOutputBytes
  <2>1. /\ value = call.value /\ count = call.next /\ Result(args.rax, args.compat) = call.ret
        /\ call.type = "OUTPUT_BYTES" /\ call.ret \in Int
    BY <1>1, <1>6, Values, CallFields DEF PrintOutputBytes, PlaceInv, BytesTypes
  <2>2. shown' = IF call.ret < 0 THEN Address(call.value)
                 ELSE print_bytes(call.value, Min({call.ret, call.next}))
    BY <1>6, <2>1 DEF PrintOutputBytes
  <2>3. CASE call.ret < 0
    <3>1. BufferTrue(Address(call.value))
      BY DEF BufferTrue
    <3>2. QED
      BY <1>4, <2>2, <2>3, <3>1
  <2>4. CASE ~(call.ret < 0)
    <3>1. call.ret >= 0
      BY <2>1, <2>4
    <3>2. Meant = Min({call.ret, call.next})
      BY <1>1, <2>1, <3>1, MeantIs
    <3>3. shown' = print_bytes(call.value, Meant)
      BY <2>2, <2>4, <3>2
    <3>4. BufferTrue(print_bytes(call.value, Meant))
      BY <1>1, <3>1, BufferShown
    <3>5. QED
      BY <1>4, <3>3, <3>4
  <2>5. QED
    BY <2>3, <2>4
<1>7. CASE PrintScalar \/ PrintString
  BY <1>3, <1>7 DEF PrintScalar, PrintString, BytesTypes
<1>8. CASE ReadElement
  <2>1. call.type \notin BytesTypes
    BY <1>1, <1>8 DEF ReadElement, PlaceInv, BytesTypes
  <2>2. QED
    BY <1>3, <2>1
<1>9. QED
  BY <1>2, <1>3, <1>5, <1>6, <1>7, <1>8 DEF Next, vars, ReadRegisters, RegistersGone,
     StartArgv, PrintElement, PrintResult, Vanish, Overwrite, Over

\* A string stays true.
LEMMA StringKept ==
  ASSUME MemoryInv, [Next]_vars, NEW t, NEW a, StringTrue(t, a)
  PROVE  StringTrue(t, a)'
<1>1. IsAt(t, a)'
  BY IsAtKept DEF StringTrue
<1>2. PICK x : x = a + Len(t.bytes)
  OBVIOUS
<1>3. (There(x) <=> There(x)') /\ (There(x) => Held(x) \subseteq Held(x)')
  BY Grows
<1>4. IF t.more THEN Len(t.bytes) = StringCap \/ ~There(x) ELSE There(x) /\ 0 \in Held(x)
  BY <1>2 DEF StringTrue
<1>5. IF t.more THEN Len(t.bytes) = StringCap \/ ~There(x)' ELSE There(x)' /\ 0 \in Held(x)'
  BY <1>3, <1>4
<1>6. \A k \in DOMAIN t.bytes : t.bytes[k] # 0
  BY DEF StringTrue
<1>7. QED
  BY <1>1, <1>2, <1>5, <1>6 DEF StringTrue

\* Every step keeps StringsTrue.
LEMMA StringsStep ==
  ASSUME Inv, [Next]_vars
  PROVE  StringsTrue'
<1>1. /\ MemoryInv /\ PlaceInv /\ StringsTrue /\ call' = call /\ call \in Calls /\ Bytes
  BY Grows DEF Inv, MemoryInv
<1>2. ASSUME NEW t, shown' = t, t.show = "text" => StringTrue(t, call.value)
      PROVE  StringsTrue'
  <2>1. PICK a : a = call.value
    OBVIOUS
  <2>2. t.show = "text" => StringTrue(t, a)'
    BY <1>1, <1>2, <2>1, StringKept
  <2>3. QED
    BY <1>1, <1>2, <2>1, <2>2 DEF StringsTrue
<1>3. CASE call.type # "STR"
  BY <1>1, <1>3 DEF StringsTrue
<1>4. CASE shown' = shown /\ call.type = "STR"
  <2>1. PICK t : t = shown
    OBVIOUS
  <2>2. t.show = "text" => StringTrue(t, call.value)
    BY <1>1, <1>4, <2>1 DEF StringsTrue
  <2>3. shown' = t
    BY <1>4, <2>1
  <2>4. QED
    BY <1>2, <2>2, <2>3
<1>5. CASE PrintString
  <2>1. value = call.value
    BY <1>1, <1>5, Values DEF PrintString, PlaceInv
  <2>2. shown' = print_string(call.value)
    BY <1>5, <2>1 DEF PrintString
  <2>3. PICK t : t = print_string(call.value)
    OBVIOUS
  <2>4. t.show = "text" => StringTrue(t, call.value)
    <3>1. call.value \in Int
      BY <1>1, CallFields, Widths
    <3>2. t = Address(call.value) \/ StringTrue(t, call.value)
      BY <1>1, <2>3, <3>1, PrintStringTrue
    <3>3. QED
      BY <3>2 DEF Address
  <2>5. QED
    BY <1>2, <2>2, <2>3, <2>4
<1>6. CASE PrintScalar \/ PrintInputBytes \/ PrintOutputBytes \/ StartArgv \/ ReadElement
           \/ PrintElement
  <2>1. call.type # "STR"
    BY <1>1, <1>6 DEF PrintScalar, PrintInputBytes, PrintOutputBytes, StartArgv, ReadElement,
       PrintElement, PlaceInv
  <2>2. QED
    BY <1>3, <2>1
<1>7. QED
  BY <1>3, <1>4, <1>5, <1>6 DEF Next, vars, ReadRegisters, RegistersGone, PrintResult,
     Vanish, Overwrite, Over

-----------------------------------------------------------------------------
(* Vectors. *)

\* What element k of a vector may be shown as.
ElementTrue(item, k) ==
  /\ \A a \in SlotOf(k) : There(a)
  /\ \E p \in PointersAt(k) \ {0} :
       \/ item = Address(p)
       \/ item.show = "text" /\ StringTrue(item, p)

\* How a vector of n elements may end.
EndTrue(end, n) ==
  /\ end = "closed" => (\A a \in SlotOf(n + 1) : There(a)) /\ 0 \in PointersAt(n + 1)
  /\ end = "cut" => \/ n = ArgvCap
                    \/ ~alive
                    \/ \E a \in SlotOf(n + 1) : ~There(a)

\* The bytes of the pointer at place k.
LEMMA Slot ==
  ASSUME call.compat \in BOOLEAN, NEW k, NEW a, a = call.value + (k - 1) * Width(call.compat)
  PROVE  /\ SlotOf(k) = IF call.compat THEN {a} ELSE {a, a + 1}
         /\ PointersAt(k) = IF call.compat THEN Held(a)
                            ELSE {b + Base * c : b \in Held(a), c \in Held(a + 1)}
         /\ Width(call.compat) = IF call.compat THEN 1 ELSE 2
<1>1. a = call.value + (k - 1) * (IF call.compat THEN 1 ELSE 2)
  BY DEF Width
<1>2. QED
  BY <1>1 DEF SlotOf, PointersAt, Width

\* A pointer that is there stays there, and what it has pointed to is not forgotten.
LEMMA SlotKept ==
  ASSUME MemoryInv, [Next]_vars, NEW k
  PROVE  /\ SlotOf(k)' = SlotOf(k)
         /\ \A a \in SlotOf(k) : There(a) <=> There(a)'
         /\ (\A a \in SlotOf(k) : There(a)) => PointersAt(k) \subseteq PointersAt(k)'
<1>1. call' = call /\ call.compat \in BOOLEAN
  BY Grows, CallFields DEF MemoryInv
<1>2. \A x : (There(x) <=> There(x)') /\ (There(x) => Held(x) \subseteq Held(x)')
  BY Grows
<1>3. SlotOf(k)' = SlotOf(k)
  BY <1>1 DEF SlotOf
<1>4. ASSUME \A a \in SlotOf(k) : There(a) PROVE PointersAt(k) \subseteq PointersAt(k)'
  <2>1. PICK a : a = call.value + (k - 1) * (IF call.compat THEN 1 ELSE 2)
    OBVIOUS
  <2>2. CASE call.compat
    <3>1. There(a)
      BY <1>4, <2>1, <2>2 DEF SlotOf
    <3>2. Held(a) \subseteq Held(a)'
      BY <1>2, <3>1
    <3>3. PointersAt(k) = Held(a) /\ PointersAt(k)' = Held(a)'
      BY <1>1, <2>1, <2>2 DEF PointersAt
    <3>4. QED
      BY <3>2, <3>3
  <2>3. CASE ~call.compat
    <3>1. There(a) /\ There(a + 1)
      BY <1>4, <2>1, <2>3 DEF SlotOf
    <3>2. Held(a) \subseteq Held(a)' /\ Held(a + 1) \subseteq Held(a + 1)'
      BY <1>2, <3>1
    <3>3. /\ PointersAt(k) = {b + Base * c : b \in Held(a), c \in Held(a + 1)}
          /\ PointersAt(k)' = {b + Base * c : b \in Held(a)', c \in Held(a + 1)'}
      BY <1>1, <2>1, <2>3 DEF PointersAt
    <3>4. QED
      BY <3>2, <3>3
  <2>4. QED
    BY <2>2, <2>3
<1>5. QED
  BY <1>2, <1>3, <1>4

\* An element stays true.
LEMMA ElementKept ==
  ASSUME MemoryInv, [Next]_vars, NEW item, NEW k, ElementTrue(item, k)
  PROVE  ElementTrue(item, k)'
<1>1. /\ SlotOf(k)' = SlotOf(k) /\ \A a \in SlotOf(k) : There(a)'
      /\ PointersAt(k) \subseteq PointersAt(k)'
  BY SlotKept DEF ElementTrue
<1>2. PICK p \in PointersAt(k) \ {0} :
        item = Address(p) \/ (item.show = "text" /\ StringTrue(item, p))
  BY DEF ElementTrue
<1>3. item = Address(p) \/ (item.show = "text" /\ StringTrue(item, p)')
  BY <1>2, StringKept
<1>4. QED
  BY <1>1, <1>2, <1>3 DEF ElementTrue

\* The end of a vector stays true: a tracee that is gone does not come back.
LEMMA EndKept ==
  ASSUME MemoryInv, [Next]_vars, NEW end, NEW n, EndTrue(end, n)
  PROVE  EndTrue(end, n)'
<1>1. ~alive => ~alive'
  BY DEF Next, vars, ReadRegisters, RegistersGone, PrintScalar, PrintInputBytes,
     PrintOutputBytes, PrintString, StartArgv, ReadElement, PrintElement, PrintResult, Vanish,
     Overwrite, Over
<1>2. PICK k : k = n + 1
  OBVIOUS
<1>3. /\ SlotOf(k)' = SlotOf(k) /\ \A a \in SlotOf(k) : There(a) <=> There(a)'
      /\ (\A a \in SlotOf(k) : There(a)) => PointersAt(k) \subseteq PointersAt(k)'
  BY SlotKept
<1>4. /\ end = "closed" => (\A a \in SlotOf(k) : There(a)) /\ 0 \in PointersAt(k)
      /\ end = "cut" => n = ArgvCap \/ ~alive \/ \E a \in SlotOf(k) : ~There(a)
  BY <1>2 DEF EndTrue
<1>5. end = "closed" => (\A a \in SlotOf(k)' : There(a)') /\ 0 \in PointersAt(k)'
  BY <1>3, <1>4
<1>6. end = "cut" => n = ArgvCap \/ ~alive' \/ \E a \in SlotOf(k)' : ~There(a)'
  BY <1>1, <1>3, <1>4
<1>7. QED
  BY <1>2, <1>5, <1>6 DEF EndTrue

\* Behind i pointers that are there, the next one is where print_argv looks for it: the
\* address does not wrap.  What is read of it is all of it, and a pointer it has been,
\* or the tracee is gone, or some of it cannot be read.
LEMMA SlotRead ==
  ASSUME MemoryInv, NEW i \in Nat, \A k \in 1..i : \A a \in SlotOf(k) : There(a),
         NEW w, w = Width(call.compat),
         NEW bytes, bytes = read_tracee((call.value + i * w) % Long, w)
  PROVE  /\ Len(bytes) = w => (\A a \in SlotOf(i + 1) : There(a))
                               /\ Pointer(bytes) \in PointersAt(i + 1)
         /\ Len(bytes) # w => ~alive \/ \E a \in SlotOf(i + 1) : ~There(a)
<1>1. call.compat \in BOOLEAN /\ call.value \in 0..(Long - 1) /\ Long \in Nat \ {0}
  BY CallFields, Widths DEF MemoryInv
<1>2. w = IF call.compat THEN 1 ELSE 2
  BY DEF Width
<1>3. w \in {1, 2} /\ w \in Nat
  BY <1>1, <1>2
<1>4. PICK a \in Int : a = call.value + i * w
  <2>1. call.value + i * w \in Int
    BY <1>1, <1>3
  <2>2. QED
    BY <2>1
<1>5. a \in 0..(Long - 1)
  <2>1. CASE i = 0
    <3>1. 0 * w = 0
      BY <1>3
    <3>2. a = call.value
      BY <1>1, <1>4, <2>1, <3>1
    <3>3. QED
      BY <1>1, <3>2
  <2>2. CASE i # 0
    <3>1. PICK p \in Int : p = call.value + (i - 1) * w
      <4>1. call.value + (i - 1) * w \in Int
        BY <1>1, <1>3
      <4>2. QED
        BY <4>1
    <3>2. (i - 1) * w = i * w - w /\ i * w \in Nat
      <4>1. CASE w = 1
        BY <4>1
      <4>2. CASE w = 2
        BY <4>2
      <4>3. QED
        BY <1>3, <4>1, <4>2
    <3>3. a = p + w /\ a >= 0
      BY <1>1, <1>3, <1>4, <3>1, <3>2
    <3>4. p + w - 1 \in SlotOf(i)
      <4>1. SlotOf(i) = IF call.compat THEN {p} ELSE {p, p + 1}
        BY <1>1, <3>1, Slot
      <4>2. QED
        BY <1>1, <1>2, <4>1
    <3>5. There(p + w - 1)
      BY <2>2, <3>4
    <3>6. p + w - 1 \in 0..(Long - 2)
      BY <3>5 DEF There, MemoryInv
    <3>7. QED
      BY <1>1, <1>3, <3>3, <3>6
  <2>3. QED
    BY <2>1, <2>2
<1>6. (call.value + i * w) % Long = a
  BY <1>1, <1>4, <1>5, Division
<1>7. bytes = read_tracee(a, w)
  BY <1>6
<1>8. /\ bytes \in Seq(Byte) /\ Len(bytes) \in 0..w
      /\ \A k \in 1..Len(bytes) : Readable(a + k - 1) /\ bytes[k] = mem[a + k - 1]
      /\ Len(bytes) < w => ~Readable(a + Len(bytes))
  BY <1>3, <1>7, ReadTrue DEF MemoryInv
<1>9. /\ SlotOf(i + 1) = IF call.compat THEN {a} ELSE {a, a + 1}
      /\ PointersAt(i + 1) = IF call.compat THEN Held(a)
                             ELSE {b + Base * c : b \in Held(a), c \in Held(a + 1)}
  <2>1. PICK k : k = i + 1 /\ k - 1 = i
    OBVIOUS
  <2>2. a = call.value + (k - 1) * Width(call.compat)
    BY <1>4, <2>1
  <2>3. /\ SlotOf(k) = IF call.compat THEN {a} ELSE {a, a + 1}
        /\ PointersAt(k) = IF call.compat THEN Held(a)
                           ELSE {b + Base * c : b \in Held(a), c \in Held(a + 1)}
    BY <1>1, <2>2, Slot
  <2>4. QED
    BY <2>1, <2>3
<1>10. ASSUME Len(bytes) = w
       PROVE  (\A x \in SlotOf(i + 1) : There(x)) /\ Pointer(bytes) \in PointersAt(i + 1)
  <2>1. 1 \in 1..Len(bytes) /\ a + 1 - 1 = a
    BY <1>3, <1>10
  <2>2. Readable(a) /\ bytes[1] = mem[a]
    BY <1>8, <2>1
  <2>3. There(a) /\ bytes[1] \in Held(a)
    BY <2>2, ReadableIsThere
  <2>4. CASE call.compat
    <3>1. Len(bytes) = 1
      BY <1>2, <1>10, <2>4
    <3>2. Pointer(bytes) = bytes[1]
      <4>1. bytes \in Seq(Byte) /\ Len(bytes) \in {1, 2}
        BY <1>8, <3>1
      <4>2. QED
        BY <3>1, <4>1, PointerOfBytes
    <3>3. SlotOf(i + 1) = {a} /\ PointersAt(i + 1) = Held(a)
      BY <1>9, <2>4
    <3>4. QED
      BY <2>3, <3>2, <3>3
  <2>5. CASE ~call.compat
    <3>1. Len(bytes) = 2
      BY <1>2, <1>10, <2>5
    <3>2. Pointer(bytes) = bytes[1] + Base * bytes[2]
      <4>1. bytes \in Seq(Byte)
        BY <1>8
      <4>2. Len(bytes) \in {1, 2} /\ Len(bytes) # 1
        BY <3>1
      <4>3. QED
        BY <4>1, <4>2, PointerOfBytes
    <3>3. Readable(a + 1) /\ bytes[2] = mem[a + 1]
      <4>1. PICK k : k = 2
        OBVIOUS
      <4>2. k \in 1..Len(bytes)
        <5>1. k \in 1..2
          BY <4>1
        <5>2. QED
          BY <3>1, <5>1
      <4>3. a + k - 1 = a + 1
        BY <4>1
      <4>4. Readable(a + k - 1) /\ bytes[k] = mem[a + k - 1]
        BY <1>8, <4>2
      <4>5. QED
        BY <4>1, <4>3, <4>4
    <3>4. There(a + 1) /\ bytes[2] \in Held(a + 1)
      BY <3>3, ReadableIsThere
    <3>5. /\ SlotOf(i + 1) = {a, a + 1}
          /\ PointersAt(i + 1) = {b + Base * c : b \in Held(a), c \in Held(a + 1)}
      BY <1>9, <2>5
    <3>6. QED
      BY <2>3, <3>2, <3>4, <3>5
  <2>6. QED
    BY <2>4, <2>5
<1>11. ASSUME Len(bytes) # w PROVE ~alive \/ \E x \in SlotOf(i + 1) : ~There(x)
  <2>1. Len(bytes) < w /\ Len(bytes) \in {0, 1}
    <3>1. PICK n \in 0..w : n = Len(bytes)
      BY <1>8
    <3>2. n # w
      BY <1>11, <3>1
    <3>3. CASE w = 1
      <4>1. n = 0
        BY <3>2, <3>3
      <4>2. QED
        BY <3>1, <3>3, <4>1
    <3>4. CASE w = 2
      <4>1. n < w /\ n \in {0, 1}
        BY <3>2, <3>4
      <4>2. QED
        BY <3>1, <4>1
    <3>5. QED
      BY <1>3, <3>3, <3>4
  <2>2. ~Readable(a + Len(bytes))
    BY <1>8, <2>1
  <2>3. a + Len(bytes) \in SlotOf(i + 1)
    <3>1. CASE call.compat
      <4>1. Len(bytes) = 0
        <5>1. w = 1
          BY <1>2, <3>1
        <5>2. QED
          BY <2>1, <5>1
      <4>2. a + Len(bytes) = a
        BY <4>1
      <4>3. QED
        BY <1>9, <3>1, <4>2
    <3>2. CASE ~call.compat
      <4>1. a + Len(bytes) \in {a, a + 1}
        <5>1. a + 0 = a
          OBVIOUS
        <5>2. QED
          BY <2>1, <5>1
      <4>2. QED
        BY <1>9, <3>2, <4>1
    <3>3. QED
      BY <3>1, <3>2
  <2>4. QED
    BY <2>2, <2>3, ReadableIsThere
<1>12. QED
  BY <1>10, <1>11

\* Every step keeps ElementInv.
LEMMA ElementStep ==
  ASSUME Inv, [Next]_vars
  PROVE  ElementInv'
<1>1. /\ MemoryInv /\ PlaceInv /\ ElementInv /\ VectorsTrue /\ call' = call /\ call \in Calls
  BY Grows DEF Inv, MemoryInv
<1>2. ASSUME NEW k, NEW p, shown' = shown, k = Len(shown.items) + 1, element' = p,
             \A a \in SlotOf(k) : There(a), p \in PointersAt(k) \ {0}
      PROVE  ElementInv'
  <2>1. /\ SlotOf(k)' = SlotOf(k) /\ \A a \in SlotOf(k) : There(a)'
        /\ PointersAt(k) \subseteq PointersAt(k)'
    BY <1>1, <1>2, SlotKept
  <2>2. k = Len(shown'.items) + 1
    BY <1>2
  <2>3. (\A a \in SlotOf(k)' : There(a)') /\ element' \in PointersAt(k)' \ {0}
    BY <1>2, <2>1
  <2>4. QED
    BY <2>2, <2>3 DEF ElementInv
<1>3. CASE pc' # "string"
  BY <1>3 DEF ElementInv
<1>4. CASE pc = "string" /\ shown' = shown /\ element' = element
  <2>1. PICK k, p : k = Len(shown.items) + 1 /\ p = element
    OBVIOUS
  <2>2. (\A a \in SlotOf(k) : There(a)) /\ p \in PointersAt(k) \ {0}
    BY <1>1, <1>4, <2>1 DEF ElementInv
  <2>3. QED
    BY <1>2, <1>4, <2>1, <2>2
<1>5. CASE ReadElement /\ pc' = "string"
  <2>1. PICK i, w, bytes : i = Len(shown.items) /\ w = Width(args.compat)
                           /\ bytes = read_tracee((value + i * w) % Long, w)
    OBVIOUS
  <2>2. /\ Len(bytes) = w /\ Pointer(bytes) # 0 /\ element' = Pointer(bytes) /\ shown' = shown
        /\ pc = "element"
    BY <1>5, <2>1 DEF ReadElement
  <2>3. value = call.value /\ args.compat = call.compat
    BY <1>1, <2>2, Values DEF PlaceInv
  <2>4. shown \in Lists /\ call.type = "VSTR"
    BY <1>1, <2>2 DEF PlaceInv
  <2>5. i \in Nat /\ DOMAIN shown.items = 1..i /\ shown.show = "list"
    BY <2>1, <2>4, ListShape
  <2>6. \A k \in 1..i : \A a \in SlotOf(k) : There(a)
    BY <1>1, <2>4, <2>5 DEF VectorsTrue
  <2>7. (\A a \in SlotOf(i + 1) : There(a)) /\ Pointer(bytes) \in PointersAt(i + 1)
    BY <1>1, <2>1, <2>2, <2>3, <2>5, <2>6, SlotRead
  <2>8. PICK k, p : k = i + 1 /\ p = Pointer(bytes)
    OBVIOUS
  <2>9. QED
    BY <1>2, <2>1, <2>2, <2>7, <2>8
<1>6. QED
  BY <1>3, <1>4, <1>5 DEF Next, vars, ReadRegisters, RegistersGone, PrintScalar,
     PrintInputBytes, PrintOutputBytes, PrintString, StartArgv, PrintElement, PrintResult,
     Vanish, Overwrite, Over

\* Every step keeps VectorsTrue.
LEMMA VectorsStep ==
  ASSUME Inv, [Next]_vars
  PROVE  VectorsTrue'
<1>1. /\ MemoryInv /\ PlaceInv /\ ElementInv /\ VectorsTrue /\ call' = call /\ call \in Calls
      /\ Bytes
  BY Grows DEF Inv, MemoryInv
<1>2. CASE call.type # "VSTR"
  BY <1>1, <1>2 DEF VectorsTrue
<1>3. ASSUME NEW t, shown' = t, t.show # "list" PROVE VectorsTrue'
  BY <1>3 DEF VectorsTrue
<1>4. ASSUME NEW items, NEW end, shown' = List(items, end),
             \A k \in DOMAIN items : ElementTrue(items[k], k), EndTrue(end, Len(items))
      PROVE  VectorsTrue'
  <2>1. \A k \in DOMAIN items : ElementTrue(items[k], k)'
    <3>1. TAKE k \in DOMAIN items
    <3>2. PICK item : item = items[k]
      OBVIOUS
    <3>3. ElementTrue(item, k)'
      BY <1>1, <1>4, <3>2, ElementKept
    <3>4. QED
      BY <3>2, <3>3
  <2>2. PICK n : n = Len(items)
    OBVIOUS
  <2>3. EndTrue(end, n)'
    BY <1>1, <1>4, <2>2, EndKept
  <2>4. shown'.items = items /\ shown'.end = end
    BY <1>4 DEF List
  <2>5. QED
    BY <2>1, <2>2, <2>3, <2>4 DEF VectorsTrue, ElementTrue, EndTrue
<1>5. ASSUME call.type = "VSTR", shown \in Lists
      PROVE  /\ shown.items \in Seq(Items) /\ shown.end \in {"open", "closed", "cut"}
             /\ \A k \in DOMAIN shown.items : ElementTrue(shown.items[k], k)
             /\ EndTrue(shown.end, Len(shown.items))
             /\ shown = List(shown.items, shown.end)
  <2>1. shown.items \in Seq(Items) /\ shown.show = "list" /\ shown.end \in {"open", "closed", "cut"}
    BY <1>5, ListShape
  <2>2. shown = List(shown.items, shown.end)
    BY <1>5 DEF Lists, List
  <2>3. QED
    BY <1>1, <1>5, <2>1, <2>2 DEF VectorsTrue, ElementTrue, EndTrue
<1>6. CASE shown' = shown /\ call.type = "VSTR"
  <2>1. CASE shown \in Lists
    <3>1. PICK items, end : items = shown.items /\ end = shown.end
      OBVIOUS
    <3>2. QED
      BY <1>4, <1>5, <1>6, <2>1, <3>1
  <2>2. CASE shown \notin Lists
    <3>1. shown.show # "list"
      <4>1. shown \in Items \/ shown = Nothing \/ \E n : shown = Number(n)
        BY <1>1, <2>2 DEF PlaceInv, Shows
      <4>2. QED
        BY <4>1, ItemShape DEF Nothing, Number
    <3>2. QED
      BY <1>6, <3>1 DEF VectorsTrue
  <2>3. QED
    BY <2>1, <2>2
<1>7. CASE StartArgv
  <2>1. PICK items, end : items = <<>> /\ end = "open"
    OBVIOUS
  <2>2. shown' = List(items, end)
    BY <1>7, <2>1 DEF StartArgv
  <2>3. DOMAIN items = {} /\ EndTrue(end, Len(items))
    BY <2>1 DEF EndTrue
  <2>4. QED
    BY <1>4, <2>2, <2>3
<1>8. CASE ReadElement
  <2>1. PICK i, w, bytes : i = Len(shown.items) /\ w = Width(args.compat)
                           /\ bytes = read_tracee((value + i * w) % Long, w)
    OBVIOUS
  <2>2. pc = "element" /\ shown \in Lists /\ call.type = "VSTR" /\ shown.end = "open"
    BY <1>1, <1>8 DEF ReadElement, PlaceInv
  <2>3. value = call.value /\ args.compat = call.compat
    BY <1>1, <2>2, Values DEF PlaceInv
  <2>4. /\ i \in Nat /\ DOMAIN shown.items = 1..i
        /\ \A k \in 1..i : ElementTrue(shown.items[k], k)
    BY <1>5, <2>1, <2>2
  <2>5. \A k \in 1..i : \A a \in SlotOf(k) : There(a)
    BY <2>4 DEF ElementTrue
  <2>6. /\ Len(bytes) = w => (\A a \in SlotOf(i + 1) : There(a))
                              /\ Pointer(bytes) \in PointersAt(i + 1)
        /\ Len(bytes) # w => ~alive \/ \E a \in SlotOf(i + 1) : ~There(a)
    BY <1>1, <2>1, <2>3, <2>4, <2>5, SlotRead
  <2>7. PICK items : items = shown.items
    OBVIOUS
  <2>8. \A k \in DOMAIN items : ElementTrue(items[k], k)
    BY <2>4, <2>7
  <2>9. \A end : [shown EXCEPT !.end = end] = List(items, end)
    BY <2>2, <2>7, ListShape
  <2>10. \/ /\ i = ArgvCap \/ Len(bytes) # w
            /\ shown' = [shown EXCEPT !.end = "cut"]
         \/ shown' = Address(value)
         \/ /\ Len(bytes) = w /\ Pointer(bytes) = 0
            /\ shown' = [shown EXCEPT !.end = "closed"]
         \/ shown' = shown
    BY <1>8, <2>1 DEF ReadElement
  <2>11. CASE /\ i = ArgvCap \/ Len(bytes) # w
              /\ shown' = [shown EXCEPT !.end = "cut"]
    <3>1. PICK end : end = "cut"
      OBVIOUS
    <3>2. EndTrue(end, Len(items))
      BY <2>1, <2>6, <2>7, <2>11, <3>1 DEF EndTrue
    <3>3. shown' = List(items, end)
      BY <2>9, <2>11, <3>1
    <3>4. QED
      BY <1>4, <2>8, <3>2, <3>3
  <2>12. CASE shown' = Address(value)
    BY <1>3, <2>12 DEF Address
  <2>13. CASE /\ Len(bytes) = w /\ Pointer(bytes) = 0
              /\ shown' = [shown EXCEPT !.end = "closed"]
    <3>1. PICK end : end = "closed"
      OBVIOUS
    <3>2. EndTrue(end, Len(items))
      BY <2>1, <2>6, <2>7, <2>13, <3>1 DEF EndTrue
    <3>3. shown' = List(items, end)
      BY <2>9, <2>13, <3>1
    <3>4. QED
      BY <1>4, <2>8, <3>2, <3>3
  <2>14. CASE shown' = shown
    BY <1>6, <2>2, <2>14
  <2>15. QED
    BY <2>10, <2>11, <2>12, <2>13, <2>14
<1>9. CASE PrintElement
  <2>1. /\ pc = "string" /\ shown \in Lists /\ call.type = "VSTR" /\ shown.end = "open"
        /\ element \in 0..(Long - 1)
    BY <1>1, <1>9 DEF PrintElement, PlaceInv
  <2>2. PICK old \in Seq(Items), n \in Nat : old = shown.items /\ n = Len(old)
    BY <1>5, <2>1
  <2>3. \A k \in 1..n : ElementTrue(old[k], k)
    BY <1>5, <2>1, <2>2
  <2>4. PICK item \in Items : item = print_string(element)
    BY <1>1, <2>1, PrintStringItem
  <2>5. PICK items : items = Append(old, item)
    OBVIOUS
  <2>6. /\ Len(items) = n + 1 /\ DOMAIN items = 1..n + 1 /\ items[n + 1] = item
        /\ \A k \in 1..n : items[k] = old[k]
    BY <2>2, <2>4, <2>5
  <2>7. ElementTrue(item, n + 1)
    <3>1. (\A a \in SlotOf(n + 1) : There(a)) /\ element \in PointersAt(n + 1) \ {0}
      BY <1>1, <2>1, <2>2 DEF ElementInv
    <3>2. element \in Int
      BY <2>1, Widths
    <3>3. item = Address(element) \/ (item.show = "text" /\ StringTrue(item, element))
      BY <1>1, <2>4, <3>2, PrintStringTrue DEF Text
    <3>4. QED
      BY <3>1, <3>3 DEF ElementTrue
  <2>8. \A k \in DOMAIN items : ElementTrue(items[k], k)
    <3>1. ASSUME NEW k \in 1..n + 1 PROVE ElementTrue(items[k], k)
      <4>1. CASE k = n + 1
        BY <2>6, <2>7, <4>1
      <4>2. CASE k # n + 1
        <5>1. k \in 1..n
          BY <4>2
        <5>2. QED
          BY <2>3, <2>6, <5>1
      <4>3. QED
        BY <4>1, <4>2
    <3>2. QED
      BY <2>6, <3>1
  <2>9. PICK end : end = "open"
    OBVIOUS
  <2>10. shown' = List(items, end)
    <3>1. shown' = [shown EXCEPT !.items = items]
      BY <1>9, <2>2, <2>4, <2>5 DEF PrintElement
    <3>2. shown' = List(items, shown.end)
      BY <2>1, <3>1, ListShape
    <3>3. QED
      BY <2>1, <2>9, <3>2
  <2>11. EndTrue(end, Len(items))
    BY <2>9 DEF EndTrue
  <2>12. QED
    BY <1>4, <2>8, <2>10, <2>11
<1>10. CASE PrintScalar \/ PrintInputBytes \/ PrintOutputBytes \/ PrintString
  BY <1>2, <1>10 DEF PrintScalar, PrintInputBytes, PrintOutputBytes, PrintString
<1>11. QED
  BY <1>2, <1>6, <1>7, <1>8, <1>9, <1>10 DEF Next, vars, ReadRegisters, RegistersGone,
     PrintResult, Vanish, Overwrite, Over

-----------------------------------------------------------------------------
(* The theorems. *)

\* The invariant holds at first.
LEMMA InvInit ==
  ASSUME Init
  PROVE  Inv
<1>1. PICK case \in Cases : mem \in case.memories /\ call \in case.calls
  BY DEF Init
<1>2. MemoryInv
  <2>1. DOMAIN mem \subseteq 0..(Long - 2) /\ \A a \in DOMAIN mem : mem[a] \in Byte
    BY <1>1, ScaleAssumption
  <2>2. call \in Calls
    BY <1>1, CallAssumption
  <2>3. QED
    BY <2>1, <2>2 DEF MemoryInv, Bytes
<1>3. /\ pc = "regs" /\ args = NoArgs /\ element = 0 /\ shown = Nothing /\ answer = Nothing
  BY DEF Init
<1>4. shown.show = "nothing" /\ answer.show = "nothing"
  BY <1>3 DEF Nothing
<1>5. 0 \in 0..(Long - 1)
  BY Widths
<1>6. PlaceInv
  BY <1>3, <1>4, <1>5 DEF PlaceInv, RegistersTrue, Shows
<1>7. ElementInv
  BY <1>3 DEF ElementInv
<1>8. NumbersTrue /\ ErrorsTrue /\ BuffersTrue /\ StringsTrue /\ VectorsTrue
  BY <1>3, <1>4 DEF NumbersTrue, ErrorsTrue, BuffersTrue, StringsTrue, VectorsTrue
<1>9. QED
  BY <1>2, <1>6, <1>7, <1>8 DEF Inv

\* It holds of every state.
LEMMA InvCorrect == Spec => []Inv
<1>1. Init => Inv
  BY InvInit
<1>2. Inv /\ [Next]_vars => Inv'
  <2>1. SUFFICES ASSUME Inv, [Next]_vars PROVE Inv'
    OBVIOUS
  <2>2. MemoryInv'
    BY <2>1, Grows DEF Inv
  <2>3. PlaceInv'
    BY <2>1, PlaceStep DEF Inv
  <2>4. ElementInv'
    BY <2>1, ElementStep
  <2>5. NumbersTrue' /\ ErrorsTrue' /\ BuffersTrue'
    BY <2>1, NumbersStep, ErrorsStep, BuffersStep
  <2>6. StringsTrue' /\ VectorsTrue'
    BY <2>1, StringsStep, VectorsStep
  <2>7. QED
    BY <2>2, <2>3, <2>4, <2>5, <2>6 DEF Inv
<1>3. QED
  BY <1>1, <1>2, PTL DEF Spec

\* What the places of the model hold has its type, whatever is read and shown.
THEOREM FormatTypeCorrect == Spec => []TypeOK
<1>1. Inv => TypeOK
  <2>1. SUFFICES ASSUME Inv PROVE TypeOK
    OBVIOUS
  <2>2. MemoryInv /\ PlaceInv
    BY <2>1 DEF Inv
  <2>3. shown.show \in {"nothing", "address", "number", "list", "text"}
    <3>1. shown = Nothing \/ (\E n : shown = Number(n)) \/ shown \in Items \/ shown \in Lists
      BY <2>2 DEF PlaceInv, Shows
    <3>2. QED
      BY <3>1, ItemShape, ListShape DEF Nothing, Number
  <2>4. pc \in {"element", "string"} => shown.show = "list" /\ shown.end = "open"
    BY <2>2, ListShape DEF PlaceInv
  <2>5. QED
    BY <2>2, <2>3, <2>4 DEF TypeOK, MemoryInv, Bytes, PlaceInv
<1>2. QED
  BY <1>1, InvCorrect, PTL

\* read_registers takes the number, the six arguments, the result and the ABI of a call
\* from where the program and the kernel have put them, in either struct of the union.
THEOREM RegistersCorrect == Spec => []RegistersTrue
<1>1. Inv => RegistersTrue
  BY DEF Inv, PlaceInv
<1>2. QED
  BY <1>1, InvCorrect, PTL

\* print_arg shows a number with the width and the sign of its C type, of either ABI.
THEOREM NumbersCorrect == Spec => []NumbersTrue
<1>1. Inv => NumbersTrue
  BY DEF Inv
<1>2. QED
  BY <1>1, InvCorrect, PTL

\* A result is shown as an error exactly if it is one of the kernel's error numbers.
THEOREM ErrorsCorrect == Spec => []ErrorsTrue
<1>1. Inv => ErrorsTrue
  BY DEF Inv
<1>2. QED
  BY <1>1, InvCorrect, PTL

\* print_bytes shows bytes of the tracee, as many as are meant, or says that it does not.
THEOREM BuffersCorrect == Spec => []BuffersTrue
<1>1. Inv => BuffersTrue
  BY DEF Inv
<1>2. QED
  BY <1>1, InvCorrect, PTL

\* print_string shows a string up to its NUL, or marks that it goes on.
THEOREM StringsCorrect == Spec => []StringsTrue
<1>1. Inv => StringsTrue
  BY DEF Inv
<1>2. QED
  BY <1>1, InvCorrect, PTL

\* print_argv shows the strings a vector points to, also while others write into it, and
\* says whether there are more.
THEOREM VectorsCorrect == Spec => []VectorsTrue
<1>1. Inv => VectorsTrue
  BY DEF Inv
<1>2. QED
  BY <1>1, InvCorrect, PTL

\* No byte of the program ends a quoted text early or swallows its closing quote.
THEOREM QuotesCorrect == Spec => []QuotesDelimit
<1>1. Inv => QuotesDelimit
  <2>1. SUFFICES ASSUME Inv, NEW t \in Texts PROVE Scan(t.quoted) = "closed"
    BY DEF QuotesDelimit
  <2>2. t.show = "text" /\ shown \in Shows
    BY <2>1 DEF Texts, Inv, PlaceInv
  <2>3. t \in Items
    <3>1. CASE t = shown
      <4>1. shown = Nothing \/ (\E n : shown = Number(n)) \/ shown \in Items \/ shown \in Lists
        BY <2>2 DEF Shows
      <4>2. shown \notin Lists /\ shown # Nothing /\ ~\E n : shown = Number(n)
        BY <2>2, <3>1, ListShape DEF Nothing, Number
      <4>3. QED
        BY <3>1, <4>1, <4>2
    <3>2. CASE t # shown
      <4>1. shown.show = "list" /\ t \in Range(shown.items)
        BY <2>1, <3>2 DEF Texts
      <4>2. shown \in Lists
        <5>1. shown = Nothing \/ (\E n : shown = Number(n)) \/ shown \in Items \/ shown \in Lists
          BY <2>2 DEF Shows
        <5>2. QED
          BY <4>1, <5>1, ItemShape DEF Nothing, Number
      <4>3. shown.items \in Seq(Items)
        BY <4>2, ListShape
      <4>4. PICK i \in 1..Len(shown.items) : t = shown.items[i]
        BY <4>1, <4>3 DEF Range
      <4>5. QED
        BY <4>3, <4>4, ElementOfSeq
    <3>3. QED
      BY <3>1, <3>2
  <2>4. t.bytes \in Seq(Byte) /\ t.quoted = print_quoted(t.bytes)
    BY <2>2, <2>3, ItemShape
  <2>5. QED
    BY <2>4, QuotedTrue
<1>2. QED
  BY <1>1, InvCorrect, PTL

===============================================================================

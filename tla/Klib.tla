-------------------------------- MODULE Klib --------------------------------
(***************************************************************************)
(* The functions of kernel/tools: strings and numbers (klib.c), log_printf *)
(* (log.c), which is built on them, and the linked lists of module List    *)
(* (list.c).  They are pure: an action is one call with arguments from     *)
(* small sets, and call keeps the arguments and what the function made of  *)
(* them.  A C string is the sequence of its characters, without the NUL; a *)
(* buffer is a function from offsets to characters.                        *)
(***************************************************************************)
EXTENDS List

CONSTANTS
    UINT,           \* the numbers of an unsigned int, 2^32
    Nums,           \* the numbers given to kernel_itoa
    Strings,        \* the strings given to the string functions
    MaxSize,        \* the largest size argument
    MaxFmt,         \* the longest format given to log_printf
    LOG_BUF         \* sizeof(str_buf)

NUL == "nul"

ASSUME KlibAssumption ==
    /\ UINT \in Nat \ {0} /\ MaxSize \in Nat /\ MaxFmt \in Nat /\ LOG_BUF \in Nat
    /\ Nums \subseteq (-(UINT \div 2))..(UINT \div 2 - 1)
    /\ \A s \in Strings : s \in Seq(ToSet(s)) /\ NUL \notin ToSet(s)

VARIABLE call

Chars == <<"0", "1", "2", "3", "4", "5", "6", "7",
           "8", "9", "A", "B", "C", "D", "E", "F">>
Prefix(s, n) == SubSeq(s, 1, n)

\* The C string at the start of a buffer.
StringOf(buf) ==
    LET ends == {i \in DOMAIN buf : buf[i] = NUL}
        len  == IF ends = {} THEN Max(DOMAIN buf) + 1 ELSE Min(ends)
    IN  [i \in 1..len |-> buf[i-1]]
-----------------------------------------------------------------------------
(* Faulty variants of definitions below, used to see that the properties   *)
(* notice such mistakes.                                                   *)

\* Negative numbers get a sign in every base.
bad_is_signed(num, base) == num < 0

\* The terminator is forgotten.
bad_terminator(size, len) == size

\* str_buf is used as the stack left it.
bad_memset(buf, v) == buf
-----------------------------------------------------------------------------
(* Division and remainder of C: rounded towards zero.                      *)
c_div(n, base) == IF n < 0 THEN -((-n) \div base) ELSE n \div base

(* num2ch[k + 15]: the digits in descending and then in ascending order.   *)
num2ch(k) == Chars[(IF k < 0 THEN -k ELSE k) + 1]

is_signed(num, base) == num < 0 /\ base = 10

(* kernel_itoa: the digits are made from the last to the first and then    *)
(* reversed, behind the sign.                                              *)
kernel_itoa(num, base) ==
    LET digits[n \in Int] ==
            <<num2ch(n - base * c_div(n, base))>>
            \o (IF c_div(n, base) = 0 THEN << >> ELSE digits[c_div(n, base)])
    IN  IF base \notin {2, 8, 10, 16} THEN << >>
        ELSE IF is_signed(num, base) THEN <<"-">> \o Reverse(digits[num])
        ELSE Reverse(digits[num % UINT])

(* Where kernel_strncpy puts the NUL: the loop leaves size at 0 when the   *)
(* string ends one before the limit, at -1 when the limit ends it.         *)
terminator(size, len) == IF size - len = 1 THEN len - 1 ELSE Min({size, len})

kernel_strncpy(dest, src, size) ==
    IF size = 0 THEN dest
    ELSE [i \in DOMAIN dest |->
            IF i = terminator(size, Len(src)) THEN NUL
            ELSE IF i < Min({size, Len(src)}) THEN src[i + 1] ELSE dest[i]]

(* A string has ended at this character.                                   *)
ended(c) == c = NUL

kernel_strncmp(s1, s2, size) ==
    LET at(s, i) == IF i < Len(s) THEN s[i + 1] ELSE NUL
        n == Max({k \in 0..Min({size, Len(s1), Len(s2)}) : Prefix(s1, k) = Prefix(s2, k)})
        c == at(s1, n)
        d == at(s2, n)
    IN  IF ended(c) \/ ended(d) \/ c = d THEN 0 ELSE 1

last_slash(stops) == Max(stops)

(* The offset get_file_name returns.  The search may read the character in *)
(* front of the name, whatever it is (before).                             *)
get_file_name(before, name) ==
    LET at(p) == IF p < 0 THEN before ELSE name[p + 1]
    IN  last_slash({p \in -1..(Len(name)-1) : at(p) \in {"/", "\\"} \/ p = -1}) + 1

(* kernel_memcpy on one memory, byte by byte; address 0 is the null        *)
(* pointer.                                                                *)
kernel_memcpy(mem, dest, src, size) ==
    LET m[n \in 0..size] ==
            IF n = 0 THEN mem ELSE [m[n-1] EXCEPT ![dest + n - 1] = m[n-1][src + n - 1]]
    IN  IF dest = 0 \/ src = 0 THEN mem ELSE m[size]

kernel_memset(buf, v) == [i \in DOMAIN buf |-> v]

(* kernel_vsprintf: the characters of fmt one by one; a conversion it does *)
(* not know prints nothing.  The only NUL written is the one kernel_itoa   *)
(* puts behind its digits (at nul).                                        *)
kernel_vsprintf(buffer, fmt, num, str) ==
    LET conv(ch) == CASE ch = "d" -> kernel_itoa(num, 10)
                      [] ch = "x" -> kernel_itoa(num, 16)
                      [] ch = "c" -> <<Chars[1]>>
                      [] ch = "s" -> str
                      [] OTHER    -> << >>
        step(st, ch) ==
            IF st.state = "NORMAL"
            THEN IF ch = "%" THEN [st EXCEPT !.state = "READ_FMT"]
                 ELSE [st EXCEPT !.out = Append(@, ch)]
            ELSE [state |-> "NORMAL", out |-> st.out \o conv(ch),
                  nul |-> IF ch \in {"d", "x"} THEN Len(st.out \o conv(ch)) ELSE st.nul]
        turn[n \in 0..Len(fmt)] ==
            IF n = 0 THEN [state |-> "NORMAL", out |-> << >>, nul |-> -1]
            ELSE step(turn[n-1], fmt[n])
        end == turn[Len(fmt)]
    IN  [i \in DOMAIN buffer |-> IF i < Len(end.out) THEN end.out[i + 1]
                                 ELSE IF i = end.nul THEN NUL ELSE buffer[i]]

(* The characters that log_printf sends, when str_buf is stack before it   *)
(* is cleared.                                                             *)
log_printf(stack, fmt, num, str) ==
    StringOf(kernel_vsprintf(kernel_memset(stack, NUL), fmt, num, str))
-----------------------------------------------------------------------------
None == [f |-> "none"]

KLInit == call = None

Call(r) == call' = r

Return == call # None /\ call' = None

call_itoa ==
    \E num \in Nums, base \in {2, 8, 10, 16} :
        Call([f |-> "itoa", num |-> num, base |-> base, res |-> kernel_itoa(num, base)])

call_strncpy ==
    \E src \in Strings, size \in 0..MaxSize :
        LET dest == [i \in 0..MaxSize |-> "z"]
        IN  Call([f |-> "strncpy", src |-> src, size |-> size, dest |-> dest,
                  res |-> kernel_strncpy(dest, src, size)])

call_strncmp ==
    \E s1, s2 \in Strings, size \in 0..MaxSize :
        Call([f |-> "strncmp", s1 |-> s1, s2 |-> s2, size |-> size,
              res |-> kernel_strncmp(s1, s2, size)])

call_file_name ==
    \E name \in Strings, before \in {"a", "/", NUL} :
        Call([f |-> "file", name |-> name, res |-> get_file_name(before, name)])

call_memcpy ==
    \E mem \in [1..MaxSize -> {0, 1}], dest, src \in 1..MaxSize, size \in 0..MaxSize :
        /\ dest + size <= MaxSize + 1
        /\ src + size <= MaxSize + 1
        /\ Call([f |-> "memcpy", mem |-> mem, dest |-> dest, src |-> src, size |-> size,
                 res |-> kernel_memcpy(mem, dest, src, size)])

Formats == BoundedSeq({"a", "%", "d", "x", "c", "s"}, MaxFmt)
Texts == {<< >>, <<"b", "b">>}

call_log ==
    \E fmt \in Formats, stack \in {NUL, "z"}, num \in {-1, 5}, str \in Texts :
        Call([f |-> "log", fmt |-> fmt, num |-> num, str |-> str,
              res |-> log_printf([i \in 0..(LOG_BUF-1) |-> stack], fmt, num, str)])

\* A list that links the nodes of s, and those nodes among all nodes, when
\* another list links the nodes of t.
ListOf(s) ==
    [first |-> IF s = << >> THEN NULL ELSE Head(s),
     last  |-> IF s = << >> THEN NULL ELSE Last(s),
     count |-> Len(s)]

NodesOf(s, t) ==
    LET at(q, i) == IF i \in DOMAIN q THEN q[i] ELSE NULL
        link(q, n) == LET i == CHOOSE j \in DOMAIN q : q[j] = n
                      IN  [pre |-> at(q, i - 1), next |-> at(q, i + 1)]
    IN  [n \in Node |-> IF n \in ToSet(s) THEN link(s, n)
                        ELSE IF n \in ToSet(t) THEN link(t, n) ELSE list_node_init]

(* A call on a list that holds the nodes of s, beside a list that holds    *)
(* those of t: a node is inserted only when it is on neither list and      *)
(* removed only from the list it is on, which list_remove does not check.  *)
call_list ==
    \E order \in UNION {{q \in [1..k -> Node] : IsInjective(q)} : k \in 0..Cardinality(Node)} :
    \E cut \in 0..Len(order) :
        LET s == Prefix(order, cut)
            t == SubSeq(order, cut + 1, Len(order))
            k == NodesOf(s, t)
            Result(op, n, r) == Call([f |-> "list", op |-> op, n |-> n, s |-> s, t |-> t,
                                      res |-> r])
        IN  \/ \E n \in Node \ ToSet(order) :
                  \/ Result("insert_first", n, list_insert_first(ListOf(s), k, n))
                  \/ Result("insert_last", n, list_insert_last(ListOf(s), k, n))
            \/ ~list_is_empty(ListOf(s))
               /\ Result("remove_first", Head(s), list_remove_first(ListOf(s), k))
            \/ \E n \in ToSet(s) : Result("remove", n, list_remove(ListOf(s), k, n))

KLNext ==
    \/ /\ call = None
       /\ \/ call_itoa \/ call_strncpy \/ call_strncmp
          \/ call_file_name \/ call_memcpy \/ call_log \/ call_list
    \/ Return

KLSpec == KLInit /\ [][KLNext]_call
-----------------------------------------------------------------------------
\* The number that a sequence of digits stands for.
Value(digits, base) ==
    LET v[n \in 0..Len(digits)] ==
            IF n = 0 THEN 0
            ELSE base * v[n-1] + (CHOOSE k \in 1..16 : Chars[k] = digits[n]) - 1
    IN  v[Len(digits)]

(* What kernel_itoa writes reads back as the number, in base 10 with its   *)
(* sign, also for the least int, and in the other bases as unsigned; there *)
(* is no leading zero.                                                     *)
ItoaReadsBack ==
    call.f = "itoa" =>
        LET neg    == call.res[1] = "-"
            digits == IF neg THEN Tail(call.res) ELSE call.res
            value  == Value(digits, call.base)
        IN  /\ Len(digits) > 1 => digits[1] # "0"
            /\ (IF neg THEN -value ELSE value) =
                  IF call.base = 10 THEN call.num ELSE call.num % UINT

\* kernel_strncpy leaves a start of the string in the buffer, with its NUL,
\* and the rest of the buffer alone.  A string at least two characters shorter
\* than the size is copied whole; one that just fits loses its last character
\* (klib.c line 68); one of size characters or more is cut to size characters,
\* so that the NUL is behind the limit.  Of the empty string and size 1
\* nothing is left, for the NUL then goes in front of the buffer.
StrncpyExact ==
    (call.f = "strncpy" /\ call.size > 0) =>
        LET len  == Len(call.src)
            kept == IF len + 1 = call.size THEN len - 1 ELSE Min({call.size, len})
        IN  /\ kept >= 0 => StringOf(call.res) = Prefix(call.src, kept)
            /\ \A i \in DOMAIN call.dest : i > kept => call.res[i] = call.dest[i]

\* kernel_strncmp finds two strings alike exactly if one is the start of the
\* other or their first size + 1 characters agree: the character behind the
\* limit is compared too (klib.c line 105).
StrncmpExact ==
    call.f = "strncmp" =>
        (call.res = 0 <=>
           \/ IsPrefix(call.s1, call.s2) \/ IsPrefix(call.s2, call.s1)
           \/ /\ Len(call.s1) > call.size /\ Len(call.s2) > call.size
              /\ Prefix(call.s1, call.size + 1) = Prefix(call.s2, call.size + 1))

\* get_file_name returns what is behind the last slash, or all of the name;
\* the character in front of the name makes no difference.
FileNameIsLast ==
    call.f = "file" =>
        /\ call.res = 0 \/ call.name[call.res] \in {"/", "\\"}
        /\ \A i \in (call.res + 1)..Len(call.name) : call.name[i] \notin {"/", "\\"}

\* kernel_memcpy moves the source to the destination, unless the destination
\* begins inside the source, and changes nothing else.
MemcpyMoves ==
    (call.f = "memcpy" /\ ~(call.dest > call.src /\ call.dest < call.src + call.size)) =>
        \A a \in DOMAIN call.mem :
            call.res[a] = IF a \in call.dest..(call.dest + call.size - 1)
                          THEN call.mem[call.src + (a - call.dest)] ELSE call.mem[a]

(* What kernel_strncpy, kernel_strncmp, get_file_name and kernel_memcpy    *)
(* compute for every size, at their limits too: a name that just fits its  *)
(* buffer or is longer, strings that differ behind the limit, a path       *)
(* without a slash, blocks that overlap.  The first two do not do at their *)
(* limits what a caller would take them to do (StrncmpAtMostSize).         *)
StringsExact == StrncpyExact /\ StrncmpExact /\ FileNameIsLast /\ MemcpyMoves

\* What the format stands for: it is cut at its conversions, left to right.
Expansion(fmt, num, str) ==
    LET from[i \in 1..(Len(fmt) + 2)] ==
          IF i > Len(fmt) THEN << >>
          ELSE IF fmt[i] # "%" THEN <<fmt[i]>> \o from[i + 1]
          ELSE IF i = Len(fmt) THEN << >>
          ELSE (CASE fmt[i + 1] = "d" -> kernel_itoa(num, 10)
                  [] fmt[i + 1] = "x" -> kernel_itoa(num, 16)
                  [] fmt[i + 1] = "c" -> <<Chars[1]>>
                  [] fmt[i + 1] = "s" -> str
                  [] OTHER -> << >>) \o from[i + 2]
    IN  from[1]

(* str_buf is large enough for every line that is logged, and its NUL.     *)
ASSUME LogAssumption ==
    \A fmt \in Formats, num \in {-1, 5}, str \in Texts :
        Len(Expansion(fmt, num, str)) < LOG_BUF

(* log_printf sends exactly what the format stands for, although           *)
(* kernel_vsprintf does not end the line and whatever was on the stack.    *)
LogLine == call.f = "log" => call.res = Expansion(call.fmt, call.num, call.str)

(* A list holds what its callers put there, in order and readable in both  *)
(* directions, after every operation of list.c on every list, and the      *)
(* other list that links nodes of the same kind is left alone.             *)
ListsHold ==
    call.f = "list" =>
        /\ Represents(call.res.list, call.res.node,
                      CASE call.op = "insert_first" -> <<call.n>> \o call.s
                        [] call.op = "insert_last"  -> Append(call.s, call.n)
                        [] OTHER                    -> RemoveFirst(call.s, call.n))
        /\ Represents(ListOf(call.t), call.res.node, call.t)

(* "Compares two strings, at most size characters of them" (klib.c line    *)
(* 90): two strings that agree in their first size characters are alike.   *)
StrncmpAtMostSize ==
    (call.f = "strncmp" /\ call.size > 0 /\ Len(call.s1) >= call.size /\ Len(call.s2) >= call.size
       /\ Prefix(call.s1, call.size) = Prefix(call.s2, call.size)) => call.res = 0
=============================================================================

--------------------------- MODULE VideoAdapterProofs ---------------------------
(***************************************************************************)
(* For all sizes, limits and alignments: that the application's format     *)
(* request survives every order of wants and requests, and that what a     *)
(* frame becomes is right.                                                 *)
(*                                                                         *)
(* FormatRequestKept is not inductive: a request that equals None would be *)
(* taken for an empty stash.  The strengthening says that the stash is     *)
(* empty exactly while the request is in force, and that a request is      *)
(* never None.                                                             *)
(*                                                                         *)
(* DeliveredFrameIsRight needs no more than the types of the settings, as  *)
(* every frame is computed anew; the work is in the operators.  The loop   *)
(* of FindScale and the powers of two of the ladder are recursive, so      *)
(* facts about them are inductions.  The library's induction theorems take *)
(* a predicate, which the provers cannot instantiate; Induction takes a    *)
(* set in its place, and is a consequence of LeastNumber, which follows    *)
(* from the well-founded order of finite sets.                             *)
(***************************************************************************)
EXTENDS VideoAdapter, FiniteSetTheorems, TLAPS

-----------------------------------------------------------------------------
(* The format request.                                                      *)

Requested ==
    /\ requested # None
    /\ stashed_output_format_request_ = None => output_format_request_ = requested
    /\ stashed_output_format_request_ # None =>
          /\ stashed_output_format_request_ = requested
          /\ output_format_request_ = NoFormat
          /\ scale_resolution_down_to_ # None

\* A format, as the constructor of the request makes it.
FormatOf(landscape, landscape_pixels, portrait, portrait_pixels, fps) ==
    [landscape |-> landscape, landscape_pixels |-> landscape_pixels,
     portrait |-> portrait, portrait_pixels |-> portrait_pixels, fps |-> fps]

\* A format request has members, so it is never the empty optional
\* (stashed_output_format_request_ in video_adapter.h).
LEMMA FormatIsNotNone ==
    ASSUME NEW a, NEW b, NEW c, NEW d, NEW e
    PROVE  FormatOf(a, b, c, d, e) # None
<1>1. DOMAIN FormatOf(a, b, c, d, e)
         = {"landscape", "landscape_pixels", "portrait", "portrait_pixels", "fps"}
    BY DEF FormatOf
<1>2. DOMAIN None = {}
    BY DEF None
<1>3. "fps" \in DOMAIN FormatOf(a, b, c, d, e)
    BY <1>1
<1> QED BY <1>2, <1>3

\* The constructor leaves a request that is in force (VideoAdapter::VideoAdapter).
LEMMA InitRequested == Init => Requested
<1>1. NoFormat # None
    BY FormatIsNotNone DEF NoFormat, FormatOf
<1> QED BY <1>1 DEF Init, Requested

\* Every overload of OnOutputFormatRequest keeps to the stash.
LEMMA RequestKeeps ==
    ASSUME NEW a, NEW b, NEW c, NEW d, NEW e, Requested, Request(a, b, c, d, e)
    PROVE  Requested'
<1> DEFINE request == FormatOf(a, b, c, d, e)
<1>1. /\ KeepOrStash(request) /\ requested' = request
      /\ scale_resolution_down_to_' = scale_resolution_down_to_
    BY DEF Request, FormatOf, wants
<1>2. request # None
    BY FormatIsNotNone
<1> HIDE DEF request
<1> QED BY <1>1, <1>2 DEF KeepOrStash, Requested

\* Wants stash the request, leave it, or restore it (VideoAdapter::OnSinkWants).
LEMMA WantsKeep == Requested /\ OnSinkWants => Requested'
BY DEF Requested, OnSinkWants

\* No step loses the request.
LEMMA NextRequested == Requested /\ [Next]_vars => Requested'
<1> SUFFICES ASSUME Requested, [Next]_vars PROVE Requested'
    OBVIOUS
<1>1. CASE AdaptFrameResolution
  <2>1. UNCHANGED <<wants, format>>
      BY <1>1 DEF AdaptFrameResolution
  <2> QED BY <2>1 DEF Requested, wants, format
<1>2. CASE OnOutputFormatRequest
  <2>1. \E a, b, c, d, e : Request(a, b, c, d, e)
    <3>1. ASSUME NEW aspect, NEW pixels, NEW fps, RequestAspect(aspect, pixels, fps)
          PROVE  \E a, b, c, d, e : Request(a, b, c, d, e)
        BY <3>1 DEF RequestAspect
    <3> QED BY <1>2, <3>1 DEF OnOutputFormatRequest
  <2> QED BY <2>1, RequestKeeps
<1>3. CASE OnSinkWants
    BY <1>3, WantsKeep
<1>4. CASE UNCHANGED vars
    BY <1>4 DEF Requested, vars, wants, format
<1> QED BY <1>1, <1>2, <1>3, <1>4 DEF Next

\* The application's last format request is in force, or waits in the stash while a
\* sink's resolution replaces it (OnOutputFormatRequest, OnSinkWants).
THEOREM SpecFormatRequestKept == Spec => []FormatRequestKept
<1>1. Requested => FormatRequestKept
    BY DEF Requested, FormatRequestKept
<1> QED BY <1>1, InitRequested, NextRequested, PTL DEF Spec

-----------------------------------------------------------------------------
(* Induction and arithmetic.                                                *)

\* Every nonempty set of naturals has a least member.
LEMMA LeastNumber ==
    ASSUME NEW N \in SUBSET Nat, NEW some \in N
    PROVE  \E m \in N : \A n \in N : m <= n
<1> DEFINE Below == {0..n : n \in N}
<1>1. Below \subseteq FiniteSubsetsOf(Nat)
  <2>1. ASSUME NEW n \in N PROVE 0..n \subseteq Nat /\ IsFiniteSet(0..n)
      BY FS_Interval
  <2> QED BY <2>1 DEF FiniteSubsetsOf
<1>2. IsWellFoundedOn(StrictSubsetOrdering(Nat), FiniteSubsetsOf(Nat))
    BY FS_StrictSubsetOrderingWellFounded
<1>3. 0..some \in Below
    OBVIOUS
<1>4. PICK s \in Below : \A t \in Below : ~(<<t, s>> \in StrictSubsetOrdering(Nat))
  <2> HIDE DEF Below
  <2> QED BY <1>1, <1>2, <1>3, WFMin
<1>5. PICK m \in N : s = 0..m
    OBVIOUS
<1>6. ASSUME NEW n \in N, n < m PROVE FALSE
  <2>1. 0..n \subseteq 0..m /\ 0..n # 0..m
    <3>1. m \in 0..m /\ ~(m \in 0..n)
        BY <1>6
    <3>2. 0..n \subseteq 0..m
        BY <1>6
    <3> QED BY <3>1, <3>2
  <2>2. <<0..n, 0..m>> \in StrictSubsetOrdering(Nat)
    <3>1. 0..n \in SUBSET Nat /\ 0..m \in SUBSET Nat
        OBVIOUS
    <3> QED BY <2>1, <3>1 DEF StrictSubsetOrdering
  <2> QED BY <2>2, <1>4, <1>5
<1> QED BY <1>6

\* Induction over the naturals, of a set in the place of a predicate.
LEMMA Induction ==
    ASSUME NEW P, 0 \in P, \A n \in Nat : n \in P => n + 1 \in P
    PROVE  \A n \in Nat : n \in P
<1> DEFINE N == Nat \ P
<1> SUFFICES ASSUME N # {} PROVE FALSE
    OBVIOUS
<1>1. PICK m \in N : \A n \in N : m <= n
    BY LeastNumber
<1>2. m # 0
    OBVIOUS
<1>3. m - 1 \in Nat /\ m - 1 \notin N
    BY <1>1, <1>2
<1>4. (m - 1) + 1 \in P
    BY <1>3
<1> QED BY <1>4

\* A factor of an inequality may be cancelled.
LEMMA Cancel ==
    ASSUME NEW m \in Nat \ {0}, NEW a \in Int, NEW b \in Int, m * a <= m * b
    PROVE  a <= b
OBVIOUS

LEMMA CancelStrict ==
    ASSUME NEW m \in Nat \ {0}, NEW a \in Int, NEW b \in Int, m * a < m * b
    PROVE  a < b
OBVIOUS

LEMMA Times ==
    ASSUME NEW m \in Nat, NEW a \in Int, NEW b \in Int, a <= b
    PROVE  m * a <= m * b
OBVIOUS

\* What integer division is, of naturals.
LEMMA Quotient ==
    ASSUME NEW x \in Nat, NEW m \in Nat \ {0}
    PROVE  /\ x \div m \in Nat
           /\ m * (x \div m) <= x
           /\ x < m * ((x \div m) + 1)
OBVIOUS

LEMMA QuotientAtLeast ==
    ASSUME NEW x \in Nat, NEW m \in Nat \ {0}, NEW q \in Int, m * q <= x
    PROVE  q <= x \div m
<1>1. m * q < m * ((x \div m) + 1)
    BY Quotient
<1>2. q < (x \div m) + 1
    BY <1>1, Quotient, CancelStrict
<1> QED BY <1>2, Quotient

LEMMA QuotientIs ==
    ASSUME NEW m \in Nat \ {0}, NEW q \in Nat
    PROVE  (m * q) \div m = q
<1>1. m * q \in Nat
    OBVIOUS
<1>2. q <= (m * q) \div m
    BY <1>1, QuotientAtLeast
<1>3. (m * q) \div m <= q
  <2>1. m * ((m * q) \div m) <= m * q
      BY <1>1, Quotient
  <2> QED BY <1>1, <2>1, Quotient, Cancel
<1> QED BY <1>1, <1>2, <1>3, Quotient

\* A smaller ratio has no larger quotient.
LEMMA Ratio ==
    ASSUME NEW x \in Nat, NEW y \in Nat \ {0}, NEW u \in Nat, NEW v \in Nat \ {0},
           x * v <= u * y
    PROVE  x \div y <= u \div v
<1> DEFINE q == x \div y
<1>1. q \in Nat /\ y * q <= x
    BY Quotient
<1> HIDE DEF q
<1>2. v * (y * q) <= v * x
    BY <1>1, Times
<1>3. y * (v * q) <= y * u
  <2>1. v * (y * q) = y * (v * q)
      BY <1>1
  <2>2. v * x = x * v /\ u * y = y * u
      OBVIOUS
  <2>3. v * (y * q) \in Int /\ x * v \in Int /\ u * y \in Int
      BY <1>1
  <2> QED BY <2>1, <2>2, <2>3, <1>2
<1>4. v * q <= u
    BY <1>1, <1>3, Cancel
<1>5. q <= u \div v
    BY <1>1, <1>4, QuotientAtLeast
<1> QED BY <1>5 DEF q

\* No remainder means a multiple.
LEMMA Multiple ==
    ASSUME NEW x \in Nat, NEW m \in Nat \ {0}
    PROVE  /\ x % m = 0 => \E q \in Nat : x = m * q
           /\ (\E q \in Nat : x = m * q) => x % m = 0
<1>1. ASSUME x % m = 0 PROVE \E q \in Int : x = m * q
    BY <1>1, Z3
<1>2. ASSUME NEW q \in Nat, x = m * q PROVE x % m = 0
    BY <1>2, Z3
<1>3. ASSUME NEW q \in Int, x = m * q PROVE q \in Nat
    BY <1>3, Z3
<1> QED BY <1>1, <1>2, <1>3

\* roundUp yields a multiple, within the maximum, that exceeds the value by less
\* than one step, and zero only of nothing or under too small a maximum.
LEMMA Rounding ==
    ASSUME NEW value \in Nat, NEW m \in Nat \ {0}, NEW max \in Nat
    PROVE  /\ roundUp(value, m, max) \in Nat
           /\ roundUp(value, m, max) <= max
           /\ roundUp(value, m, max) <= value + m - 1
           /\ \E q \in Nat : roundUp(value, m, max) = m * q
           /\ \A w \in Nat : value <= m * w => roundUp(value, m, max) <= m * w
           /\ roundUp(value, m, max) = 0 => value = 0 \/ max < m
<1> DEFINE p == (value + m - 1) \div m
           q == max \div m
           r == roundUp(value, m, max)
<1>1. value + m - 1 \in Nat
    OBVIOUS
<1>2. p \in Nat /\ m * p <= value + m - 1 /\ value + m - 1 < m * (p + 1)
    BY <1>1, Quotient
<1>3. q \in Nat /\ m * q <= max /\ max < m * (q + 1)
    BY Quotient
<1>4. r = IF m * p <= max THEN m * p ELSE m * q
  <2>1. p * m = m * p /\ q * m = m * q
      BY <1>2, <1>3
  <2> QED BY <2>1 DEF roundUp
<1>5. m * p \in Nat /\ m * q \in Nat
    BY <1>2, <1>3
<1> HIDE DEF p, q, r
<1>6. r \in Nat /\ r <= max /\ r <= m * p
    BY <1>3, <1>4, <1>5
<1>7. ASSUME NEW w \in Nat, value <= m * w PROVE r <= m * w
  <2>1. value + m - 1 < m * (w + 1) /\ m * w \in Int
      BY <1>7
  <2>2. m * p < m * (w + 1)
      BY <1>2, <1>5, <2>1
  <2>3. p < w + 1
      BY <1>2, <2>2, CancelStrict
  <2>4. m * p <= m * w
      BY <1>2, <2>3, Times
  <2> QED BY <1>5, <1>6, <2>1, <2>4
<1>8. ASSUME r = 0 PROVE value = 0 \/ max < m
  <2>1. CASE m * p <= max
    <3>1. m * p = 0
        BY <1>4, <1>8, <2>1
    <3>2. m * (p + 1) = m
        BY <1>2, <3>1
    <3> QED BY <1>2, <3>2
  <2>2. CASE ~(m * p <= max)
    <3>1. m * q = 0
        BY <1>4, <1>8, <2>2
    <3>2. m * (q + 1) = m
        BY <1>3, <3>1
    <3> QED BY <1>3, <3>2
  <2> QED BY <2>1, <2>2
<1>9. \E k \in Nat : r = m * k
    BY <1>2, <1>3, <1>4
<1> QED BY <1>2, <1>5, <1>6, <1>7, <1>8, <1>9 DEF r

\* The greatest common divisor exists and divides both.
LEMMA GcdDivides ==
    ASSUME NEW a \in Nat \ {0}, NEW b \in Nat \ {0}
    PROVE  Gcd(a, b) \in Nat \ {0} /\ a % Gcd(a, b) = 0 /\ b % Gcd(a, b) = 0
<1> DEFINE Common == {d \in 1..a : a % d = 0 /\ b % d = 0}
           N == {a - d : d \in Common}
<1>1. 1 \in Common
    BY Multiple
<1>2. PICK m \in N : \A n \in N : m <= n
  <2>1. N \in SUBSET Nat /\ a - 1 \in N
      BY <1>1
  <2> HIDE DEF N
  <2> QED BY <2>1, LeastNumber
<1>3. PICK d \in Common : m = a - d
    BY <1>2
<1>4. \A e \in (d + 1)..a : a % e # 0 \/ b % e # 0
  <2> SUFFICES ASSUME NEW e \in (d + 1)..a, a % e = 0, b % e = 0 PROVE FALSE
      OBVIOUS
  <2>1. e \in Common
      BY <1>3
  <2>2. a - e \in N
      BY <2>1
  <2>3. d \in Nat /\ e \in Nat /\ d < e
      BY <1>3
  <2>4. a - d <= a - e
      BY <2>2, <1>2, <1>3
  <2> QED BY <2>3, <2>4
<1>5. \E g \in 1..a : /\ a % g = 0 /\ b % g = 0
                      /\ \A e \in (g + 1)..a : a % e # 0 \/ b % e # 0
    BY <1>3, <1>4
<1>6. /\ Gcd(a, b) \in 1..a
      /\ a % Gcd(a, b) = 0 /\ b % Gcd(a, b) = 0
    BY <1>5 DEF Gcd
<1> QED BY <1>6

\* The alignment in force is positive (OnSinkWants).
LEMMA LcmPositive ==
    ASSUME NEW a \in Nat \ {0}, NEW b \in Nat \ {0}
    PROVE  Lcm(a, b) \in Nat \ {0}
<1> DEFINE g == Gcd(a, b)
<1>1. g \in Nat \ {0} /\ a % g = 0
    BY GcdDivides
<1> HIDE DEF g
<1>2. PICK q \in Nat : a = g * q
    BY <1>1, Multiple
<1>3. a \div g = q /\ q # 0
    BY <1>1, <1>2, QuotientIs
<1> QED BY <1>3 DEF Lcm, g

-----------------------------------------------------------------------------
(* The loop of FindScale.                                                   *)

\* The loop's scales, and the order of the ratios they stand for.
Fractions == [n : Nat \ {0}, d : Nat \ {0}]
Below(s, t) == s.n * t.d <= t.n * s.d

\* Lowest terms (DivideByGcd) leave the ratio as it is.
LEMMA LowestIsEqual ==
    ASSUME NEW s \in Fractions
    PROVE  /\ Lowest(s) \in Fractions
           /\ \E g \in Nat \ {0} : s.n = g * Lowest(s).n /\ s.d = g * Lowest(s).d
<1> DEFINE g == Gcd(s.n, s.d)
<1>0. s.n \in Nat \ {0} /\ s.d \in Nat \ {0}
    BY DEF Fractions
<1>1. g \in Nat \ {0} /\ s.n % g = 0 /\ s.d % g = 0
    BY <1>0, GcdDivides
<1>2. Lowest(s) = [n |-> s.n \div g, d |-> s.d \div g]
    BY DEF Lowest
<1> HIDE DEF g
<1>3. PICK p \in Nat : s.n = g * p
    BY <1>0, <1>1, Multiple
<1>4. PICK q \in Nat : s.d = g * q
    BY <1>0, <1>1, Multiple
<1>5. s.n \div g = p /\ s.d \div g = q
    BY <1>1, <1>3, <1>4, QuotientIs
<1>6. p # 0 /\ q # 0
    BY <1>0, <1>1, <1>3, <1>4
<1>7. Lowest(s) = [n |-> p, d |-> q]
    BY <1>2, <1>5
<1>8. Lowest(s) \in Fractions
    BY <1>6, <1>7 DEF Fractions
<1> QED BY <1>1, <1>3, <1>4, <1>7, <1>8

LEMMA BelowTransitive ==
    ASSUME NEW r \in Fractions, NEW s \in Fractions, NEW t \in Fractions,
           Below(r, s), Below(s, t)
    PROVE  Below(r, t)
<1>1. /\ r.n \in Nat \ {0} /\ r.d \in Nat \ {0} /\ s.n \in Nat \ {0}
      /\ s.d \in Nat \ {0} /\ t.n \in Nat \ {0} /\ t.d \in Nat \ {0}
    BY DEF Fractions
<1> DEFINE a == r.n b == r.d c == s.n d == s.d e == t.n f == t.d
<1>2. a * d <= c * b /\ c * f <= e * d
    BY DEF Below
<1>3. /\ a \in Nat /\ b \in Nat /\ c \in Nat /\ d \in Nat \ {0} /\ e \in Nat /\ f \in Nat
    BY <1>1
<1> HIDE DEF a, b, c, d, e, f
<1>4. f * (a * d) <= f * (c * b)
    BY <1>2, <1>3, Times
<1>5. b * (c * f) <= b * (e * d)
    BY <1>2, <1>3, Times
<1>6. /\ f * (a * d) = d * (a * f) /\ f * (c * b) = b * (c * f)
      /\ b * (e * d) = d * (e * b)
    BY <1>3
<1>7. d * (a * f) <= d * (e * b)
    BY <1>3, <1>4, <1>5, <1>6
<1>8. a * f <= e * b
    BY <1>3, <1>7, Cancel
<1> QED BY <1>8 DEF Below, a, b, e, f

\* A smaller scale leaves no more pixels (scale_pixel_count).
LEMMA CountBelow ==
    ASSUME NEW s \in Fractions, NEW t \in Fractions, NEW input \in Nat, Below(s, t)
    PROVE  /\ scale_pixel_count(s, input) \in Nat
           /\ scale_pixel_count(s, input) <= scale_pixel_count(t, input)
<1>1. s.n \in Nat \ {0} /\ s.d \in Nat \ {0} /\ t.n \in Nat \ {0} /\ t.d \in Nat \ {0}
    BY DEF Fractions
<1> DEFINE a == s.n b == s.d c == t.n d == t.d x == a * d y == c * b
<1>2. x \in Nat /\ y \in Nat /\ x <= y
    BY <1>1 DEF Below
<1>3. a \in Nat \ {0} /\ b \in Nat \ {0} /\ c \in Nat \ {0} /\ d \in Nat \ {0}
    BY <1>1
<1>9. x = a * d /\ y = c * b
    OBVIOUS
<1> HIDE DEF a, b, c, d, x, y
<1>4. x * x <= y * y
  <2>1. x * x <= x * y
      BY <1>2, Times
  <2>2. y * x <= y * y
      BY <1>2, Times
  <2> QED BY <1>2, <2>1, <2>2
<1>5. input * (x * x) <= input * (y * y)
    BY <1>2, <1>4, Times
<1>6. (a * a * input) * (d * d) <= (c * c * input) * (b * b)
  <2>1. (a * a * input) * (d * d) = input * ((a * d) * (a * d))
      BY <1>3
  <2>2. (c * c * input) * (b * b) = input * ((c * b) * (c * b))
      BY <1>3
  <2> QED BY <2>1, <2>2, <1>5, <1>9
<1>7. /\ a * a * input \in Nat /\ c * c * input \in Nat
      /\ b * b \in Nat \ {0} /\ d * d \in Nat \ {0}
    BY <1>3
<1>8. (a * a * input) \div (b * b) <= (c * c * input) \div (d * d)
    BY <1>6, <1>7, Ratio
<1>10. (a * a * input) \div (b * b) \in Nat
    BY <1>7, Quotient
<1> QED BY <1>8, <1>10 DEF scale_pixel_count, a, b, c, d

\* A step of the loop leads to a smaller scale.
LEMMA DownIsBelow ==
    ASSUME NEW s \in Fractions
    PROVE  Down(s) \in Fractions /\ Below(Down(s), s)
<1>0. s.n \in Nat \ {0} /\ s.d \in Nat \ {0}
    BY DEF Fractions
<1>1. CASE s.n % 3 = 0 /\ s.d % 2 = 0
  <2>1. PICK p \in Nat : s.n = 3 * p
      BY <1>0, <1>1, Multiple
  <2>2. PICK q \in Nat : s.d = 2 * q
      BY <1>0, <1>1, Multiple
  <2>3. s.n \div 3 = p /\ s.d \div 2 = q
      BY <2>1, <2>2, QuotientIs
  <2>4. Down(s) = [n |-> p, d |-> q]
      BY <1>1, <2>3 DEF Down
  <2>5. p # 0 /\ q # 0
      BY <1>0, <2>1, <2>2
  <2>6. p * s.d <= s.n * q
    <3>1. p * s.d = 2 * (p * q) /\ s.n * q = 3 * (p * q) /\ p * q \in Nat
        BY <2>1, <2>2
    <3> QED BY <3>1
  <2> QED BY <2>4, <2>5, <2>6 DEF Below, Fractions
<1>2. CASE ~(s.n % 3 = 0 /\ s.d % 2 = 0)
  <2>1. Down(s) = [n |-> s.n * 3, d |-> s.d * 4]
      BY <1>2 DEF Down
  <2>2. s.n * 3 \in Nat \ {0} /\ s.d * 4 \in Nat \ {0}
      BY <1>0
  <2>3. (s.n * 3) * s.d <= s.n * (s.d * 4)
    <3>1. /\ (s.n * 3) * s.d = 3 * (s.n * s.d)
          /\ s.n * (s.d * 4) = 4 * (s.n * s.d) /\ s.n * s.d \in Nat
        BY <1>0
    <3> QED BY <3>1
  <2> QED BY <2>1, <2>2, <2>3 DEF Below, Fractions
<1> QED BY <1>1, <1>2

\* What the function of the loop's scales is defined to be.
LEMMA ScalesAre ==
    ASSUME NEW size
    PROVE  Scales(size) = [k \in 0..Depth |-> IF k = 0 THEN Start(size)
                                              ELSE Down(Scales(size)[k - 1])]
<1> DEFINE Right(f, m) == f = [k \in 0..m |-> IF k = 0 THEN Start(size)
                                              ELSE Down(f[k - 1])]
           P == {m \in Nat : \E f : Right(f, m)}
<1>1. 0 \in P
  <2>1. Right([k \in 0..0 |-> Start(size)], 0)
      OBVIOUS
  <2> QED BY <2>1
<1>2. ASSUME NEW m \in Nat, m \in P PROVE m + 1 \in P
  <2>1. PICK f : Right(f, m)
      BY <1>2
  <2> DEFINE g == [k \in 0..(m + 1) |-> IF k = m + 1 THEN Down(f[m]) ELSE f[k]]
  <2>2. ASSUME NEW k \in 0..(m + 1)
        PROVE  g[k] = IF k = 0 THEN Start(size) ELSE Down(g[k - 1])
    <3>1. CASE k = m + 1
      <4>1. g[k] = Down(f[m]) /\ g[k - 1] = f[m] /\ k # 0
          BY <3>1
      <4> QED BY <4>1
    <3>2. CASE k # m + 1
      <4>1. k \in 0..m
          BY <3>2
      <4>2. g[k] = f[k] /\ (k # 0 => g[k - 1] = f[k - 1])
          BY <4>1
      <4>3. f[k] = IF k = 0 THEN Start(size) ELSE Down(f[k - 1])
          BY <4>1, <2>1
      <4> QED BY <4>2, <4>3
    <3> QED BY <3>1, <3>2
  <2>3. Right(g, m + 1)
    <3> HIDE DEF g
    <3>1. g = [k \in 0..(m + 1) |-> g[k]]
        BY DEF g
    <3> QED BY <3>1, <2>2
  <2>4. \E h : Right(h, m + 1)
    <3> HIDE DEF g, Right
    <3> QED BY <2>3
  <2> QED BY <2>4
<1>3. Depth \in P
  <2>1. \A m \in Nat : m \in P
    <3> HIDE DEF P
    <3> QED BY <1>1, <1>2, Induction
  <2> QED BY <2>1, LimitsTyped
<1>4. PICK f : Right(f, Depth)
    BY <1>3
<1>5. Scales(size) = CHOOSE g : Right(g, Depth)
    BY DEF Scales
<1>6. Right(Scales(size), Depth)
    BY <1>4, <1>5
<1> QED BY <1>6

\* The loop starts at one, whatever the terms.
LEMMA StartIsOne ==
    ASSUME NEW size
    PROVE  Start(size) \in Fractions /\ Start(size).n = Start(size).d
BY DEF Start, Fractions

\* The loop's scales are fractions, at most one, and each is below the ones
\* before it.
LEMMA ScalesFall ==
    ASSUME NEW size
    PROVE  \A k \in 0..Depth :
              /\ Scales(size)[k] \in Fractions
              /\ \A j \in 0..k : Below(Scales(size)[k], Scales(size)[j])
<1> DEFINE f == Scales(size)
           Good(k) == \A j \in 0..k : f[j] \in Fractions /\ Below(f[k], f[j])
           P == {k \in Nat : k <= Depth => Good(k)}
<1>0. Depth \in Nat
    BY LimitsTyped
<1>1. \A k \in 0..Depth : f[k] = IF k = 0 THEN Start(size) ELSE Down(f[k - 1])
    BY ScalesAre
<1> HIDE DEF f
<1>2. \A s \in Fractions : Below(s, s)
    BY DEF Below, Fractions
<1>3. 0 \in P
    BY <1>0, <1>1, <1>2, StartIsOne
<1>4. ASSUME NEW m \in Nat, m \in P PROVE m + 1 \in P
  <2> SUFFICES ASSUME m + 1 <= Depth PROVE Good(m + 1)
      OBVIOUS
  <2>1. Good(m) /\ f[m + 1] = Down(f[m])
      BY <1>0, <1>1, <1>4
  <2>2. f[m + 1] \in Fractions /\ Below(f[m + 1], f[m])
      BY <2>1, DownIsBelow
  <2>3. ASSUME NEW j \in 0..(m + 1)
        PROVE  f[j] \in Fractions /\ Below(f[m + 1], f[j])
    <3>1. CASE j = m + 1
        BY <3>1, <2>2, <1>2
    <3>2. CASE j \in 0..m
      <4>1. Below(f[m], f[j])
          BY <3>2, <2>1
      <4>2. f[j] \in Fractions
          BY <3>2, <2>1
      <4> QED BY <4>1, <4>2, <2>1, <2>2, BelowTransitive
    <3> QED BY <3>1, <3>2
  <2> QED BY <2>3
<1>5. \A m \in Nat : m \in P
  <2> HIDE DEF P
  <2> QED BY <1>3, <1>4, Induction
<1> QED BY <1>0, <1>5 DEF f

\* The powers of two.
LEMMA TwoToDoubles ==
    /\ 0 \in 0..Depth /\ TwoTo[0] = 1
    /\ \A k \in Nat : k + 1 <= Depth => TwoTo[k + 1] = 2 * TwoTo[k]
    /\ \A k \in 0..Depth : TwoTo[k] \in Nat \ {0}
<1> DEFINE Right(f, m) == f = [k \in 0..m |-> IF k = 0 THEN 1 ELSE 2 * f[k - 1]]
           P == {m \in Nat : \E f : Right(f, m)}
<1>0. Depth \in Nat
    BY LimitsTyped
<1>1. 0 \in P
  <2>1. Right([k \in 0..0 |-> 1], 0)
      OBVIOUS
  <2> QED BY <2>1
<1>2. ASSUME NEW m \in Nat, m \in P PROVE m + 1 \in P
  <2>1. PICK f : Right(f, m)
      BY <1>2
  <2> DEFINE g == [k \in 0..(m + 1) |-> IF k = m + 1 THEN 2 * f[m] ELSE f[k]]
  <2>2. ASSUME NEW k \in 0..(m + 1)
        PROVE  g[k] = IF k = 0 THEN 1 ELSE 2 * g[k - 1]
    <3>1. CASE k = m + 1
      <4>1. g[k] = 2 * f[m] /\ g[k - 1] = f[m] /\ k # 0
          BY <3>1
      <4> QED BY <4>1
    <3>2. CASE k # m + 1
      <4>1. k \in 0..m
          BY <3>2
      <4>2. g[k] = f[k] /\ (k # 0 => g[k - 1] = f[k - 1])
          BY <4>1
      <4>3. f[k] = IF k = 0 THEN 1 ELSE 2 * f[k - 1]
          BY <4>1, <2>1
      <4> QED BY <4>2, <4>3
    <3> QED BY <3>1, <3>2
  <2>3. Right(g, m + 1)
    <3> HIDE DEF g
    <3>1. g = [k \in 0..(m + 1) |-> g[k]]
        BY DEF g
    <3> QED BY <3>1, <2>2
  <2> HIDE DEF g, Right
  <2>4. \E h : Right(h, m + 1)
      BY <2>3
  <2> QED BY <2>4
<1>3. Depth \in P
  <2>1. \A m \in Nat : m \in P
    <3> HIDE DEF P
    <3> QED BY <1>1, <1>2, Induction
  <2> QED BY <2>1, <1>0
<1>4. PICK f : Right(f, Depth)
    BY <1>3
<1>5. TwoTo = CHOOSE g : Right(g, Depth)
    BY DEF TwoTo
<1>6. Right(TwoTo, Depth)
    BY <1>4, <1>5
<1>7. TwoTo[0] = 1 /\ \A k \in Nat : k + 1 <= Depth => TwoTo[k + 1] = 2 * TwoTo[k]
  <2>1. \A k \in 0..Depth : TwoTo[k] = IF k = 0 THEN 1 ELSE 2 * TwoTo[k - 1]
      BY <1>6
  <2>2. 0 \in 0..Depth
      BY <1>0
  <2>3. ASSUME NEW k \in Nat, k + 1 <= Depth PROVE TwoTo[k + 1] = 2 * TwoTo[k]
    <3>1. k + 1 \in 0..Depth /\ k + 1 # 0 /\ (k + 1) - 1 = k
        BY <1>0, <2>3
    <3> QED BY <3>1, <2>1
  <2> QED BY <2>1, <2>2, <2>3
<1> DEFINE Q == {m \in Nat : m <= Depth => TwoTo[m] \in Nat \ {0}}
<1>8. 0 \in Q /\ \A m \in Nat : m \in Q => m + 1 \in Q
    BY <1>0, <1>7
<1>9. \A m \in Nat : m \in Q
  <2> HIDE DEF Q
  <2> QED BY <1>8, Induction
<1> QED BY <1>0, <1>7, <1>9

\* The two ways down, of a scale in a form that shows which applies.
LEMMA TwoThirds ==
    ASSUME NEW p \in Nat, NEW q \in Nat
    PROVE  Down([n |-> 3 * p, d |-> 2 * q]) = [n |-> p, d |-> q]
<1>1. (3 * p) % 3 = 0 /\ (2 * q) % 2 = 0
    BY Multiple
<1>2. (3 * p) \div 3 = p /\ (2 * q) \div 2 = q
    BY QuotientIs
<1> QED BY <1>1, <1>2 DEF Down

LEMMA ThreeQuarters ==
    ASSUME NEW n \in {1, 2, 4}, NEW q \in Nat
    PROVE  Down([n |-> n, d |-> q]) = [n |-> 3 * n, d |-> 4 * q]
<1>1. n % 3 # 0
    OBVIOUS
<1> QED BY <1>1 DEF Down

\* The scales of the loop, by what divides the size: where it starts at one, and
\* where one or two steps by 2/3 come first.
Form(size, k) ==
    LET S == Scales(size)
        p == TwoTo[k]
    IN  CASE Start(size).n = 1 ->
               S[2 * k] = [n |-> 1, d |-> p] /\ S[2 * k + 1] = [n |-> 3, d |-> 4 * p]
          [] Start(size).n = 6 ->
               S[2 * k] = [n |-> 6, d |-> 6 * p] /\ S[2 * k + 1] = [n |-> 2, d |-> 3 * p]
          [] OTHER ->
               S[2 * k + 1] = [n |-> 12, d |-> 18 * p] /\ S[2 * k + 2] = [n |-> 4, d |-> 9 * p]

\* The loop alternates as the comment at FindScale says, from each start.
LEMMA ScalesAlternate ==
    ASSUME NEW size
    PROVE  \A k \in Nat : 2 * k + 2 <= Depth => Form(size, k)
<1> DEFINE S == Scales(size)
           one == Start(size).n
           P == {k \in Nat : 2 * k + 2 <= Depth => Form(size, k)}
<1>0. Depth \in Nat
    BY LimitsTyped
<1>1. one \in {1, 6, 36} /\ Start(size) = [n |-> one, d |-> one]
    BY DEF Start
<1>2. \A k \in 0..Depth : S[k] = IF k = 0 THEN Start(size) ELSE Down(S[k - 1])
    BY ScalesAre
<1> HIDE DEF S, one
<1>3. S[0] = [n |-> one, d |-> one]
    BY <1>0, <1>1, <1>2
<1>4. ASSUME NEW k \in Nat, k + 1 <= Depth PROVE S[k + 1] = Down(S[k])
  <2>1. k + 1 \in 0..Depth /\ k + 1 # 0 /\ (k + 1) - 1 = k
      BY <1>0, <1>4
  <2> QED BY <2>1, <1>2
<1>5. /\ Down([n |-> 36, d |-> 36]) = [n |-> 12, d |-> 18]
      /\ Down([n |-> 6, d |-> 6]) = [n |-> 2, d |-> 3]
  <2>1. 36 = 3 * 12 /\ 36 = 2 * 18 /\ 6 = 3 * 2 /\ 6 = 2 * 3
      OBVIOUS
  <2> QED BY <2>1, TwoThirds
<1>6. \A q \in Nat : /\ Down([n |-> 1, d |-> q]) = [n |-> 3, d |-> 4 * q]
                     /\ Down([n |-> 2, d |-> q]) = [n |-> 6, d |-> 4 * q]
                     /\ Down([n |-> 4, d |-> q]) = [n |-> 12, d |-> 4 * q]
  <2>1. 3 * 1 = 3 /\ 3 * 2 = 6 /\ 3 * 4 = 12
      OBVIOUS
  <2> QED BY <2>1, ThreeQuarters
<1>7. \A p \in Nat : /\ Down([n |-> 3, d |-> 4 * p]) = [n |-> 1, d |-> 2 * p]
                     /\ Down([n |-> 6, d |-> 6 * p]) = [n |-> 2, d |-> 3 * p]
                     /\ Down([n |-> 12, d |-> 18 * p]) = [n |-> 4, d |-> 9 * p]
  <2> SUFFICES ASSUME NEW p \in Nat
               PROVE  /\ Down([n |-> 3, d |-> 4 * p]) = [n |-> 1, d |-> 2 * p]
                      /\ Down([n |-> 6, d |-> 6 * p]) = [n |-> 2, d |-> 3 * p]
                      /\ Down([n |-> 12, d |-> 18 * p]) = [n |-> 4, d |-> 9 * p]
      OBVIOUS
  <2>1. 3 = 3 * 1 /\ 6 = 3 * 2 /\ 12 = 3 * 4
      OBVIOUS
  <2>2. 4 * p = 2 * (2 * p) /\ 6 * p = 2 * (3 * p) /\ 18 * p = 2 * (9 * p)
      OBVIOUS
  <2>3. 2 * p \in Nat /\ 3 * p \in Nat /\ 9 * p \in Nat
      OBVIOUS
  <2> QED BY <2>1, <2>2, <2>3, TwoThirds
<1>8. 0 \in P
  <2> SUFFICES ASSUME 2 <= Depth PROVE Form(size, 0)
      OBVIOUS
  <2>1. S[1] = Down(S[0]) /\ S[2] = Down(S[1])
    <3>1. 0 + 1 = 1 /\ 1 + 1 = 2
        OBVIOUS
    <3> QED BY <3>1, <1>4, <1>0
  <2>2. TwoTo[0] = 1
      BY TwoToDoubles
  <2>3. 2 * 0 = 0 /\ 2 * 0 + 1 = 1 /\ 2 * 0 + 2 = 2 /\ 4 * 1 = 4 /\ 6 * 1 = 6
        /\ 3 * 1 = 3 /\ 18 * 1 = 18 /\ 9 * 1 = 9
      OBVIOUS
  <2>4. CASE one = 1
    <3>1. S[0] = [n |-> 1, d |-> 1] /\ S[1] = [n |-> 3, d |-> 4]
      <4>1. S[0] = [n |-> 1, d |-> 1]
          BY <1>3, <2>4
      <4>2. S[1] = [n |-> 3, d |-> 4 * 1]
          BY <4>1, <2>1, <1>6
      <4> QED BY <4>1, <4>2, <2>3
    <3> QED BY <3>1, <2>2, <2>3, <2>4 DEF Form, S, one
  <2>5. CASE one = 6
    <3>1. S[0] = [n |-> 6, d |-> 6] /\ S[1] = [n |-> 2, d |-> 3]
        BY <1>3, <1>5, <2>1, <2>5
    <3> QED BY <3>1, <2>2, <2>3, <2>5 DEF Form, S, one
  <2>6. CASE one = 36
    <3>1. S[1] = [n |-> 12, d |-> 18]
        BY <1>3, <1>5, <2>1, <2>6
    <3>2. S[2] = [n |-> 4, d |-> 9]
      <4>1. S[2] = Down([n |-> 12, d |-> 18 * 1])
          BY <3>1, <2>1, <2>3
      <4>2. Down([n |-> 12, d |-> 18 * 1]) = [n |-> 4, d |-> 9 * 1]
          BY <1>7
      <4> QED BY <4>1, <4>2, <2>3
    <3> QED BY <3>1, <3>2, <2>2, <2>3, <2>6 DEF Form, S, one
  <2> QED BY <1>1, <2>4, <2>5, <2>6
<1>9. ASSUME NEW m \in Nat, m \in P PROVE m + 1 \in P
  <2> SUFFICES ASSUME 2 * (m + 1) + 2 <= Depth PROVE Form(size, m + 1)
      OBVIOUS
  <2>1. Form(size, m) /\ m + 1 <= Depth /\ m \in 0..Depth
      BY <1>0, <1>9
  <2> DEFINE p == TwoTo[m] i == 2 * m
  <2>2. p \in Nat /\ TwoTo[m + 1] = 2 * p
      BY <2>1, TwoToDoubles
  <2>3. i \in Nat /\ 2 * (m + 1) = i + 2 /\ i + 4 <= Depth
      OBVIOUS
  <2>4. /\ S[i + 2] = Down(S[i + 1]) /\ S[i + 3] = Down(S[i + 2])
        /\ S[i + 4] = Down(S[i + 3])
    <3>1. /\ i + 1 \in Nat /\ i + 2 \in Nat /\ i + 3 \in Nat
          /\ (i + 1) + 1 = i + 2 /\ (i + 2) + 1 = i + 3 /\ (i + 3) + 1 = i + 4
          /\ i + 2 <= Depth /\ i + 3 <= Depth
        BY <1>0, <2>3
    <3> QED BY <3>1, <2>3, <1>4
  <2>5. /\ 2 * (m + 1) + 1 = i + 3 /\ 2 * (m + 1) + 2 = i + 4
      OBVIOUS
  <2>6. /\ 2 * p \in Nat /\ 3 * p \in Nat /\ 9 * p \in Nat
        /\ 4 * (3 * p) = 6 * (2 * p) /\ 4 * (9 * p) = 18 * (2 * p)
      BY <2>2
  <2> HIDE DEF p, i
  <2>7. CASE one = 1
    <3>1. S[i + 1] = [n |-> 3, d |-> 4 * p]
        BY <2>1, <2>7 DEF Form, S, one, p, i
    <3>2. S[i + 2] = [n |-> 1, d |-> 2 * p]
        BY <3>1, <2>2, <2>4, <1>7
    <3>3. S[i + 3] = [n |-> 3, d |-> 4 * (2 * p)]
        BY <3>2, <2>4, <2>6, <1>6
    <3> QED BY <3>2, <3>3, <2>2, <2>3, <2>5, <2>7 DEF Form, S, one
  <2>8. CASE one = 6
    <3>1. S[i + 1] = [n |-> 2, d |-> 3 * p]
        BY <2>1, <2>8 DEF Form, S, one, p, i
    <3>2. S[i + 2] = [n |-> 6, d |-> 6 * (2 * p)]
        BY <3>1, <2>4, <2>6, <1>6
    <3>3. S[i + 3] = [n |-> 2, d |-> 3 * (2 * p)]
        BY <3>2, <2>4, <2>6, <1>7
    <3> QED BY <3>2, <3>3, <2>2, <2>3, <2>5, <2>8 DEF Form, S, one
  <2>9. CASE one = 36
    <3>1. S[i + 2] = [n |-> 4, d |-> 9 * p]
        BY <2>1, <2>9 DEF Form, S, one, p, i
    <3>2. S[i + 3] = [n |-> 12, d |-> 18 * (2 * p)]
        BY <3>1, <2>4, <2>6, <1>6
    <3>3. S[i + 4] = [n |-> 4, d |-> 9 * (2 * p)]
        BY <3>2, <2>4, <2>6, <1>7
    <3> QED BY <3>2, <3>3, <2>2, <2>3, <2>5, <2>9 DEF Form, S, one
  <2> QED BY <1>1, <2>7, <2>8, <2>9
<1>10. \A k \in Nat : k \in P
  <2> HIDE DEF P
  <2> QED BY <1>8, <1>9, Induction
<1> QED BY <1>10

\* Every size the alternation leads to is one of the loop's.
LEMMA LadderReached ==
    ASSUME NEW size, NEW t \in Ladder(size)
    PROVE  /\ t \in Fractions
           /\ \E j \in 0..Depth : /\ Below(t, Scales(size)[j])
                                  /\ Below(Scales(size)[j], t)
<1> DEFINE S == Scales(size)
           one == Start(size).n
           Found(s) == /\ s \in Fractions
                       /\ \E j \in 0..Depth : Below(s, S[j]) /\ Below(S[j], s)
<1>0. Depth \in Nat
    BY LimitsTyped
<1>1. one \in {1, 6, 36} /\ Start(size) = [n |-> one, d |-> one]
    BY DEF Start
<1>2. S[0] = [n |-> one, d |-> one]
    BY <1>0, <1>1, ScalesAre
<1>3. ASSUME NEW k \in 0..Depth, 2 * k + 2 <= Depth
      PROVE  /\ k \in Nat /\ TwoTo[k] \in Nat \ {0} /\ Form(size, k)
             /\ 2 * k \in 0..Depth /\ 2 * k + 1 \in 0..Depth /\ 2 * k + 2 \in 0..Depth
    BY <1>0, <1>3, TwoToDoubles, ScalesAlternate
<1>4. ASSUME NEW s \in Fractions, NEW j \in 0..Depth, S[j] = s PROVE Found(s)
  <2>1. Below(s, s)
      BY DEF Below, Fractions
  <2> QED BY <2>1, <1>4
<1>5. CASE one = 1
  <2>1. PICK k \in {j \in 0..Depth : 2 * j + 2 <= Depth} :
           \/ t = [n |-> 1, d |-> 1 * TwoTo[k]]
           \/ t = [n |-> 3, d |-> 4 * TwoTo[k]]
      BY <1>5 DEF Ladder
  <2> DEFINE p == TwoTo[k]
  <2>2. /\ p \in Nat \ {0} /\ 2 * k \in 0..Depth /\ 2 * k + 1 \in 0..Depth
        /\ S[2 * k] = [n |-> 1, d |-> p] /\ S[2 * k + 1] = [n |-> 3, d |-> 4 * p]
      BY <1>3, <1>5 DEF Form
  <2> HIDE DEF p, S
  <2>3. 1 * p = p /\ 4 * p \in Nat \ {0}
      BY <2>2
  <2>4. t \in {S[2 * k], S[2 * k + 1]} /\ t \in Fractions
      BY <2>1, <2>2, <2>3 DEF p, Fractions
  <2> QED BY <2>2, <2>4, <1>4 DEF S
<1>6. CASE one = 6
  <2>1. PICK k \in {j \in 0..Depth : 2 * j + 2 <= Depth} :
           \/ t = [n |-> 1, d |-> 1 * TwoTo[k]]
           \/ t = [n |-> 2, d |-> 3 * TwoTo[k]]
      BY <1>6 DEF Ladder
  <2> DEFINE p == TwoTo[k]
  <2>2. /\ p \in Nat \ {0} /\ 2 * k \in 0..Depth /\ 2 * k + 1 \in 0..Depth
        /\ S[2 * k] = [n |-> 6, d |-> 6 * p] /\ S[2 * k + 1] = [n |-> 2, d |-> 3 * p]
      BY <1>3, <1>6 DEF Form
  <2> HIDE DEF p, S
  <2>3. 1 * p = p /\ 3 * p \in Nat \ {0} /\ 1 * (6 * p) = 6 * p
      BY <2>2
  <2>4. CASE t = [n |-> 1, d |-> 1 * TwoTo[k]]
    <3>1. t = [n |-> 1, d |-> p]
        BY <2>3, <2>4 DEF p
    <3>2. t \in Fractions /\ Below(t, S[2 * k]) /\ Below(S[2 * k], t)
        BY <3>1, <2>2, <2>3 DEF Fractions, Below
    <3> QED BY <3>2, <2>2 DEF S
  <2>5. CASE t = [n |-> 2, d |-> 3 * TwoTo[k]]
    <3>1. t = S[2 * k + 1] /\ t \in Fractions
        BY <2>2, <2>3, <2>5 DEF p, Fractions
    <3> QED BY <3>1, <2>2, <1>4 DEF S
  <2> QED BY <2>1, <2>4, <2>5
<1>7. CASE one = 36
  <2>1. CASE t = [n |-> 1, d |-> 1]
    <3>1. t \in Fractions /\ Below(t, S[0]) /\ Below(S[0], t)
      <4> HIDE DEF S
      <4> QED BY <2>1, <1>2, <1>7 DEF Fractions, Below
    <3> QED BY <3>1, <1>0
  <2>2. CASE t # [n |-> 1, d |-> 1]
    <3>1. PICK k \in {j \in 0..Depth : 2 * j + 2 <= Depth} :
             \/ t = [n |-> 2, d |-> 3 * TwoTo[k]]
             \/ t = [n |-> 4, d |-> 9 * TwoTo[k]]
        BY <1>7, <2>2 DEF Ladder
    <3> DEFINE p == TwoTo[k]
    <3>2. /\ p \in Nat \ {0} /\ 2 * k + 1 \in 0..Depth /\ 2 * k + 2 \in 0..Depth
          /\ S[2 * k + 1] = [n |-> 12, d |-> 18 * p]
          /\ S[2 * k + 2] = [n |-> 4, d |-> 9 * p]
        BY <1>3, <1>7 DEF Form
    <3> HIDE DEF p, S
    <3>3. 3 * p \in Nat \ {0} /\ 9 * p \in Nat \ {0} /\ 2 * (18 * p) = 12 * (3 * p)
        BY <3>2
    <3>4. CASE t = [n |-> 2, d |-> 3 * TwoTo[k]]
      <4>1. t = [n |-> 2, d |-> 3 * p]
          BY <3>4 DEF p
      <4>2. t \in Fractions /\ Below(t, S[2 * k + 1]) /\ Below(S[2 * k + 1], t)
          BY <4>1, <3>2, <3>3 DEF Fractions, Below
      <4> QED BY <4>2, <3>2 DEF S
    <3>5. CASE t = [n |-> 4, d |-> 9 * TwoTo[k]]
      <4>1. t = S[2 * k + 2] /\ t \in Fractions
          BY <3>2, <3>3, <3>5 DEF p, Fractions
      <4> QED BY <4>1, <3>2, <1>4 DEF S
    <3> QED BY <3>1, <3>4, <3>5
  <2> QED BY <2>1, <2>2
<1> QED BY <1>1, <1>5, <1>6, <1>7

\* What a scale leaves of a size, and how far that is from the target.
Count(size, s) == scale_pixel_count(s, Pixels(size))
Away(size, target, s) == IF Count(size, s) > target THEN Count(size, s) - target
                         ELSE target - Count(size, s)

\* The frame as it is.
Unit == [n |-> 1, d |-> 1]

LEMMA UnitCount ==
    ASSUME NEW size, Pixels(size) \in Nat
    PROVE  Unit \in Fractions /\ Count(size, Unit) = Pixels(size)
<1>1. 1 * 1 * Pixels(size) = 1 * Pixels(size) /\ 1 * 1 = 1
    OBVIOUS
<1>2. (1 * Pixels(size)) \div 1 = Pixels(size)
    BY QuotientIs
<1> QED BY <1>1, <1>2 DEF Count, scale_pixel_count, Unit, Fractions

\* The loop's scales enlarge nothing, and their counts of pixels fall.
LEMMA CountsOfScales ==
    ASSUME NEW size, Pixels(size) \in Nat
    PROVE  LET S == Scales(size)
           IN  /\ \A k \in 0..Depth : /\ S[k] \in Fractions /\ S[k].n <= S[k].d
                                      /\ Count(size, S[k]) \in Nat
                                      /\ Count(size, S[k]) <= Pixels(size)
               /\ \A j, k \in 0..Depth :
                     j <= k => /\ Below(S[k], S[j])
                               /\ Count(size, S[k]) <= Count(size, S[j])
<1> DEFINE S == Scales(size)
           one == Start(size).n
<1>1. \A k \in 0..Depth : S[k] \in Fractions
    BY ScalesFall
<1>2. ASSUME NEW j \in 0..Depth, NEW k \in 0..Depth, j <= k
      PROVE  Below(S[k], S[j]) /\ Count(size, S[k]) <= Count(size, S[j])
  <2>1. j \in 0..k
      BY <1>2
  <2>2. Below(S[k], S[j])
      BY <2>1, ScalesFall
  <2> QED BY <1>1, <2>2, CountBelow DEF Count
<1>3. one \in {1, 6, 36} /\ S[0] = [n |-> one, d |-> one] /\ 0 \in 0..Depth
  <2>1. one \in {1, 6, 36} /\ Start(size) = [n |-> one, d |-> one]
      BY DEF Start
  <2>2. 0 \in 0..Depth
      BY LimitsTyped
  <2> QED BY <2>1, <2>2, ScalesAre
<1> HIDE DEF S, one
<1>4. ASSUME NEW k \in 0..Depth
      PROVE  /\ S[k].n <= S[k].d
             /\ Count(size, S[k]) \in Nat /\ Count(size, S[k]) <= Pixels(size)
  <2>1. Below(S[k], S[0]) /\ S[k].n \in Nat /\ S[k].d \in Nat
      BY <1>1, <1>2, <1>3 DEF Fractions
  <2>2. S[k].n * one <= one * S[k].d
      BY <2>1, <1>3 DEF Below
  <2>3. S[k].n <= S[k].d
      BY <1>3, <2>1, <2>2
  <2>4. Unit \in Fractions /\ Below(S[k], Unit)
      BY <2>1, <2>3 DEF Unit, Fractions, Below
  <2>5. Count(size, Unit) = Pixels(size)
      BY UnitCount
  <2>6. Count(size, S[k]) \in Nat /\ Count(size, S[k]) <= Count(size, Unit)
      BY <1>1, <2>4, CountBelow DEF Count
  <2> QED BY <2>3, <2>5, <2>6
<1> QED BY <1>1, <1>2, <1>4 DEF S

\* The loop comes to a scale at or below the target.
LEMMA LoopEnds ==
    ASSUME NEW size, Pixels(size) \in Nat, NEW target \in Nat,
           Count(size, Scales(size)[Depth]) <= target
    PROVE  \E m \in 0..Depth :
              /\ Count(size, Scales(size)[m]) <= target
              /\ \A j \in 0..Depth : j < m => Count(size, Scales(size)[j]) > target
<1> DEFINE c(k) == Count(size, Scales(size)[k])
           N == {k \in 0..Depth : c(k) <= target}
<1>1. \A k \in 0..Depth : c(k) \in Nat
    BY CountsOfScales
<1>2. Depth \in N /\ N \in SUBSET Nat
    BY LimitsTyped
<1>3. PICK m \in N : \A n \in N : m <= n
  <2> HIDE DEF N
  <2> QED BY <1>2, LeastNumber
<1>4. ASSUME NEW j \in 0..Depth, j < m PROVE c(j) > target
    BY <1>1, <1>3, <1>4
<1> QED BY <1>3, <1>4

\* A nearest scale exists: the first of those with the least distance.
LEMMA NearestExists ==
    ASSUME NEW size, Pixels(size) \in Nat, NEW target \in Nat,
           NEW I \in SUBSET (0..Depth), I # {}
    PROVE  LET s == Nearest({Scales(size)[k] : k \in I}, size, target)
           IN  /\ s \in {Scales(size)[k] : k \in I}
               /\ \A k \in I : Away(size, target, s) <= Away(size, target, Scales(size)[k])
<1> DEFINE S == Scales(size)
           a(k) == Away(size, target, S[k])
           A == {a(k) : k \in I}
<1>1. \A k \in 0..Depth : a(k) \in Nat
    BY CountsOfScales DEF Away
<1>2. PICK least \in A : \A n \in A : least <= n
  <2>1. A \in SUBSET Nat /\ A # {}
      BY <1>1
  <2> HIDE DEF A
  <2> QED BY <2>1, LeastNumber
<1> DEFINE J == {k \in I : a(k) = least}
<1>3. PICK m \in J : \A n \in J : m <= n
  <2>1. J \in SUBSET Nat /\ J # {}
      BY <1>2
  <2> HIDE DEF J
  <2> QED BY <2>1, LeastNumber
<1>4. m \in I /\ \A k \in I : a(m) <= a(k)
    BY <1>2, <1>3
<1> DEFINE scales == {S[k] : k \in I}
           Best(s) == \A t \in scales :
                         \/ Away(size, target, s) < Away(size, target, t)
                         \/ /\ Away(size, target, s) = Away(size, target, t)
                            /\ s.n * t.d >= t.n * s.d
<1>5. Best(S[m])
  <2> SUFFICES ASSUME NEW k \in I
               PROVE  \/ a(m) < a(k)
                      \/ a(m) = a(k) /\ S[m].n * S[k].d >= S[k].n * S[m].d
      OBVIOUS
  <2>1. CASE a(m) # a(k)
      BY <1>1, <1>4, <2>1
  <2>2. CASE a(m) = a(k)
    <3>1. k \in J /\ m <= k
        BY <1>3, <2>2
    <3>2. Below(S[k], S[m])
        BY <3>1, <1>4, CountsOfScales
    <3>3. S[m].n \in Nat /\ S[m].d \in Nat /\ S[k].n \in Nat /\ S[k].d \in Nat
        BY <1>4, ScalesFall DEF Fractions
    <3> QED BY <2>2, <3>2, <3>3 DEF Below
  <2> QED BY <2>1, <2>2
<1> DEFINE s == Nearest(scales, size, target)
<1>6. s = CHOOSE x \in scales : Best(x)
    BY DEF Nearest, Away, Count
<1>7. S[m] \in scales
    BY <1>4
<1>8. s \in scales /\ Best(s)
  <2> HIDE DEF scales, Best, s
  <2> QED BY <1>5, <1>6, <1>7
<1>9. \A k \in I : Away(size, target, s) <= a(k)
  <2> SUFFICES ASSUME NEW k \in I PROVE Away(size, target, s) <= a(k)
      OBVIOUS
  <2>1. PICK j \in I : s = S[j]
      BY <1>8
  <2>2. Away(size, target, s) \in Nat /\ a(k) \in Nat
      BY <1>1, <2>1
  <2>3. S[k] \in scales
      OBVIOUS
  <2> HIDE DEF s
  <2> QED BY <1>8, <2>2, <2>3
<1> QED BY <1>8, <1>9

\* The scale found respects the limit and is nearest, of the whole ladder, to the
\* target (FindScale).
LEMMA FindScaleIsNearest ==
    ASSUME NEW size, Pixels(size) \in Nat, NEW target \in Nat, NEW max \in Nat,
           target <= max, Count(size, Scales(size)[Depth]) <= target
    PROVE  LET s == FindScale(size, target, max)
           IN  /\ s \in Fractions /\ s.n <= s.d
               /\ Count(size, s) <= max
               /\ \A t \in Ladder(size) :
                     Count(size, t) <= max =>
                        Away(size, target, s) <= Away(size, target, t)
<1> DEFINE S == Scales(size)
           c(k) == Count(size, S[k])
           I == {k \in 0..Depth : (k > 0 => c(k - 1) > target) /\ c(k) <= max}
           allowed == {scale \in Met(size, target) :
                          scale_pixel_count(scale, Pixels(size)) <= max}
           s == FindScale(size, target, max)
<1>0. Depth \in Nat
    BY LimitsTyped
<1>1. /\ \A k \in 0..Depth : /\ S[k] \in Fractions /\ S[k].n <= S[k].d
                             /\ c(k) \in Nat /\ c(k) <= Pixels(size)
      /\ \A j, k \in 0..Depth : j <= k => c(k) <= c(j)
    BY CountsOfScales
<1>2. PICK m \in 0..Depth : /\ c(m) <= target
                            /\ \A j \in 0..Depth : j < m => c(j) > target
    BY LoopEnds
<1>3. m \in I
  <2>1. ASSUME m > 0 PROVE c(m - 1) > target
    <3>1. m - 1 \in 0..Depth /\ m - 1 < m
        BY <1>0, <2>1
    <3> QED BY <3>1, <1>2
  <2>2. c(m) <= max
      BY <1>1, <1>2
  <2> QED BY <2>1, <2>2
<1>4. allowed = {S[k] : k \in I}
    BY DEF Met, Count
\* What each rung of the ladder is as near as.
<1>5. ASSUME NEW t \in Ladder(size), Count(size, t) <= max
      PROVE  /\ Count(size, t) \in Nat /\ Count(size, t) <= Pixels(size)
             /\ \E k \in I : Away(size, target, S[k]) <= Away(size, target, t)
  <2>1. PICK j \in 0..Depth : t \in Fractions /\ Below(t, S[j]) /\ Below(S[j], t)
      BY LadderReached
  <2>2. Count(size, t) = c(j) /\ c(j) \in Nat /\ c(j) <= Pixels(size)
    <3>1. S[j] \in Fractions /\ c(j) \in Nat /\ c(j) <= Pixels(size)
        BY <1>1
    <3> HIDE DEF S
    <3>2. Count(size, t) \in Nat /\ Count(size, t) <= Count(size, S[j])
        BY <2>1, <3>1, CountBelow DEF Count
    <3>3. Count(size, S[j]) <= Count(size, t)
        BY <2>1, <3>1, CountBelow DEF Count
    <3> QED BY <3>1, <3>2, <3>3
  <2>3. CASE j <= m
    <3>1. ASSUME j > 0 PROVE c(j - 1) > target
      <4>1. j - 1 \in 0..Depth /\ j - 1 < m
          BY <1>0, <2>3, <3>1
      <4> QED BY <4>1, <1>2
    <3>2. j \in I
        BY <3>1, <1>5, <2>2
    <3>3. Away(size, target, S[j]) = Away(size, target, t)
        BY <2>2 DEF Away
    <3>4. Away(size, target, t) \in Int
        BY <2>2 DEF Away
    <3>5. Away(size, target, S[j]) <= Away(size, target, t)
        BY <3>3, <3>4
    <3> HIDE DEF I
    <3> QED BY <2>2, <3>2, <3>5
  <2>4. CASE j > m
    <3>1. c(j) <= c(m) /\ c(m) \in Nat
        BY <1>1, <2>4
    <3>2. Away(size, target, S[m]) = target - c(m)
        BY <1>2, <3>1 DEF Away
    <3>3. Away(size, target, t) = target - c(j)
        BY <1>2, <2>2, <3>1 DEF Away
    <3>4. target - c(m) <= target - c(j)
        BY <2>2, <3>1
    <3> QED BY <1>3, <2>2, <3>2, <3>3, <3>4
  <2> QED BY <2>3, <2>4
<1>6. CASE target >= Pixels(size)
  <2>1. s = Unit
      BY <1>6 DEF FindScale, Unit
  <2>2. Count(size, s) = Pixels(size) /\ s \in Fractions
      BY <2>1, UnitCount
  <2>3. s.n <= s.d
      BY <2>1 DEF Unit
  <2>4. ASSUME NEW t \in Ladder(size), Count(size, t) <= max
        PROVE  Away(size, target, s) <= Away(size, target, t)
    <3>1. Count(size, t) \in Nat /\ Count(size, t) <= Pixels(size)
        BY <1>5, <2>4
    <3> HIDE DEF s
    <3> QED BY <1>6, <2>2, <3>1 DEF Away
  <2>5. Count(size, s) <= max
    <3> HIDE DEF s
    <3> QED BY <1>6, <2>2
  <2> QED BY <2>2, <2>3, <2>4, <2>5
<1>7. CASE ~(target >= Pixels(size))
  <2> DEFINE near == Nearest({S[k] : k \in I}, size, target)
  <2>1. s = Lowest(near)
    <3>1. allowed # {}
        BY <1>3, <1>4
    <3> HIDE DEF I
    <3> QED BY <1>4, <1>7, <3>1 DEF FindScale
  <2>2. /\ near \in {S[k] : k \in I}
        /\ \A k \in I : Away(size, target, near) <= Away(size, target, S[k])
    <3>1. I # {} /\ I \in SUBSET (0..Depth)
        BY <1>3
    <3> HIDE DEF I
    <3> QED BY <3>1, NearestExists
  <2>3. PICK i \in I : near = S[i]
      BY <2>2
  <2>4. near \in Fractions /\ near.n <= near.d /\ c(i) \in Nat /\ c(i) <= max
      BY <1>1, <2>3
  <2>5. PICK g \in Nat \ {0} : near.n = g * s.n /\ near.d = g * s.d
    <3> HIDE DEF near, s
    <3> QED BY <2>1, <2>4, LowestIsEqual
  <2>6. s \in Fractions
    <3> HIDE DEF near, s
    <3> QED BY <2>1, <2>4, LowestIsEqual
  <2> HIDE DEF near, s
  <2>7. s.n \in Nat /\ s.d \in Nat /\ near.n \in Nat /\ near.d \in Nat
      BY <2>4, <2>6 DEF Fractions
  <2>8. s.n <= s.d
      BY <2>4, <2>5, <2>7, Cancel
  <2>9. s.n * near.d = near.n * s.d
    <3>1. s.n * (g * s.d) = (g * s.n) * s.d
        BY <2>7
    <3> QED BY <3>1, <2>5
  <2>10. Below(s, near) /\ Below(near, s)
      BY <2>7, <2>9 DEF Below
  <2>11. Count(size, s) = Count(size, near) /\ Count(size, s) \in Nat
    <3>1. /\ Count(size, s) \in Nat /\ Count(size, near) \in Nat
          /\ Count(size, s) <= Count(size, near)
          /\ Count(size, near) <= Count(size, s)
        BY <2>4, <2>6, <2>10, CountBelow DEF Count
    <3> QED BY <3>1
  <2>12. Away(size, target, s) = Away(size, target, near)
         /\ Away(size, target, s) \in Int
      BY <2>11 DEF Away
  <2>13. ASSUME NEW t \in Ladder(size), Count(size, t) <= max
         PROVE  Away(size, target, s) <= Away(size, target, t)
    <3>1. PICK k \in I : Away(size, target, S[k]) <= Away(size, target, t)
        BY <1>5, <2>13
    <3>2. Away(size, target, near) <= Away(size, target, S[k])
        BY <2>2
    <3>3. Away(size, target, S[k]) \in Int /\ Away(size, target, t) \in Int
      <4>1. c(k) \in Nat /\ Count(size, t) \in Nat
          BY <1>1, <1>5, <2>13
      <4> QED BY <4>1 DEF Away
    <3> QED BY <2>12, <3>1, <3>2, <3>3
  <2>14. Count(size, s) <= max
      BY <2>3, <2>4, <2>11
  <2> QED BY <2>6, <2>8, <2>13, <2>14 DEF s
<1> QED BY <1>6, <1>7

-----------------------------------------------------------------------------
(* The sides.                                                               *)

\* One side of a frame: what growing the crop and scaling it do to it.
LEMMA Side ==
    ASSUME NEW a \in Nat \ {0}, NEW n \in Nat \ {0}, NEW d \in Nat \ {0}, n <= d,
           NEW crop \in Nat, NEW size \in Nat
    PROVE  LET adjusted == roundUp(crop, d * a, size)
               side == (adjusted \div d) * n
           IN  /\ adjusted \in Nat /\ adjusted <= size
               /\ side \in Nat /\ side <= adjusted
               /\ \E k \in Nat : side = a * k
               /\ side = 0 => crop = 0 \/ size < d * a
               /\ d * (side - n * a) <= n * crop
<1> DEFINE m == d * a
           adjusted == roundUp(crop, m, size)
           side == (adjusted \div d) * n
<1>1. m \in Nat \ {0}
    OBVIOUS
<1>0. m = d * a
    OBVIOUS
<1> HIDE DEF m
<1>2. /\ adjusted \in Nat /\ adjusted <= size /\ adjusted <= crop + m - 1
      /\ (adjusted = 0 => crop = 0 \/ size < m)
    BY <1>1, Rounding
<1>3. PICK q \in Nat : adjusted = m * q
    BY <1>1, Rounding
<1> HIDE DEF adjusted
<1>4. adjusted = d * (a * q) /\ a * q \in Nat
    BY <1>0, <1>3
<1>5. adjusted \div d = a * q
    BY <1>4, QuotientIs
<1>6. side = a * (q * n) /\ q * n \in Nat /\ side = n * (a * q) /\ side \in Nat
    BY <1>5
<1>7. side <= adjusted
  <2>1. (a * q) * n <= (a * q) * d
      BY <1>4, Times
  <2> QED BY <1>4, <1>5, <2>1
<1>8. ASSUME side = 0 PROVE crop = 0 \/ size < m
  <2>1. q = 0
      BY <1>6, <1>8
  <2>2. adjusted = 0
      BY <1>1, <1>3, <2>1
  <2> QED BY <1>2, <2>2
<1>9. d * (side - n * a) <= n * crop
  <2>1. d * (side - n * a) = n * (adjusted - m)
    <3>1. d * side = n * adjusted
        BY <1>4, <1>6
    <3>2. d * (n * a) = n * m
        BY <1>0
    <3>3. d * (side - n * a) = d * side - d * (n * a)
        BY <1>6
    <3>4. n * (adjusted - m) = n * adjusted - n * m
        BY <1>1, <1>2
    <3> QED BY <3>1, <3>2, <3>3, <3>4
  <2>2. adjusted - m <= crop
      BY <1>1, <1>2
  <2>3. n * (adjusted - m) <= n * crop
      BY <1>1, <1>2, <2>2, Times
  <2> QED BY <2>1, <2>3
<1> HIDE DEF side
<1> QED BY <1>0, <1>2, <1>6, <1>7, <1>8, <1>9 DEF side, adjusted

\* One side of a frame: what fitting it into a resolution does to it.
LEMMA FittedSide ==
    ASSUME NEW a \in Nat \ {0}, NEW side \in Nat \ {0}, NEW k \in Nat, side = a * k,
           NEW to \in Nat \ {0}, NEW n \in Nat \ {0}, NEW m \in Nat \ {0}, n <= m
    PROVE  LET fitted == roundUp(Rounded(side, n, m), a, to)
           IN  /\ fitted \in Nat /\ fitted <= side /\ fitted <= to
               /\ \E q \in Nat : fitted = a * q
               /\ fitted = 0 => to < a \/ 2 * side * n < m
<1> DEFINE x == 2 * side * n + m
           v == Rounded(side, n, m)
<1>1. x \in Nat /\ 2 * m \in Nat \ {0} /\ v = x \div (2 * m)
    BY DEF Rounded
<1>0. x = 2 * side * n + m /\ 2 * side * n \in Nat
    OBVIOUS
<1> HIDE DEF x, v
<1>2. v \in Nat /\ (2 * m) * v <= x /\ x < (2 * m) * (v + 1)
    BY <1>1, Quotient
<1>3. v <= side
  <2>1. 2 * side * n <= 2 * side * m
    <3>1. (2 * side) * n <= (2 * side) * m
        BY Times
    <3> QED BY <3>1
  <2>2. (2 * m) * (side + 1) = 2 * side * m + 2 * m /\ 2 * side * m \in Nat
      OBVIOUS
  <2>3. (2 * m) * v < (2 * m) * (side + 1)
    <3>1. (2 * m) * v \in Nat
        BY <1>2
    <3> QED BY <1>0, <1>1, <1>2, <2>1, <2>2, <3>1
  <2>4. v < side + 1
      BY <1>1, <1>2, <2>3, CancelStrict
  <2> QED BY <1>2, <2>4
<1>4. ASSUME v = 0 PROVE 2 * side * n < m
  <2>1. (2 * m) * (v + 1) = 2 * m
      BY <1>4
  <2> QED BY <1>0, <1>2, <2>1
<1>5. LET r == roundUp(v, a, to)
      IN  /\ r \in Nat /\ r <= to
          /\ \E q \in Nat : r = a * q
          /\ r <= a * k
          /\ r = 0 => v = 0 \/ to < a
  <2>1. v <= a * k
      BY <1>3
  <2> DEFINE r == roundUp(v, a, to)
  <2>2. r \in Nat /\ r <= to /\ (r = 0 => v = 0 \/ to < a)
      BY <1>2, Rounding
  <2>5. \E q \in Nat : r = a * q
    <3>1. v \in Nat
        BY <1>2
    <3> QED BY <3>1, Rounding
  <2>3. \A w \in Nat : v <= a * w => r <= a * w
      BY <1>2, Rounding
  <2> HIDE DEF r
  <2>4. r <= a * k
      BY <2>1, <2>3
  <2> QED BY <2>2, <2>4, <2>5 DEF r
<1> QED BY <1>4, <1>5 DEF v

\* The sizes' sides.
Positive == Nat \ {0}

\* The resolution to fit into limits both sides, turned with the frame.
LEMMA FittedSizes ==
    ASSUME NEW out, resolution_alignment_ \in Nat \ {0},
           \A i \in 1..2 : out[i] \in Nat /\ \E k \in Nat : out[i] = resolution_alignment_ * k,
           out = <<out[1], out[2]>>,
           scale_resolution_down_to_ \in (Positive \X Positive) \cup {None}
    PROVE  LET fit == Fitted(out)
               to == scale_resolution_down_to_
           IN  /\ \A i \in 1..2 :
                     /\ fit[i] \in Nat /\ fit[i] <= out[i]
                     /\ \E k \in Nat : fit[i] = resolution_alignment_ * k
                     /\ fit[i] = 0 =>
                           \/ out[i] = 0
                           \/ /\ to # None
                              /\ \E j \in 1..2 : \/ to[j] < resolution_alignment_
                                                 \/ 2 * out[i] * MinOf(to[1], to[2]) < out[j]
               /\ to # None /\ fit[1] > 0 /\ fit[2] > 0 =>
                     \/ fit[1] <= to[1] /\ fit[2] <= to[2]
                     \/ fit[1] <= to[2] /\ fit[2] <= to[1]
<1> DEFINE fit == Fitted(out) to == scale_resolution_down_to_ o == Oriented(out)
           a == resolution_alignment_
<1>1. CASE to = None
  <2>1. fit = out
      BY <1>1 DEF Fitted
  <2> HIDE DEF fit, to
  <2> QED BY <1>1, <2>1 DEF fit, to
<1>2. CASE to # None
  <2>1. to[1] \in Positive /\ to[2] \in Positive
      BY <1>2
  <2>2. \/ o[1] = to[1] /\ o[2] = to[2]
        \/ o[1] = to[2] /\ o[2] = to[1]
      BY DEF Oriented
  <2>3. o[1] \in Positive /\ o[2] \in Positive
      BY <2>1, <2>2
  <2>4. CASE out[1] = 0 \/ out[2] = 0 \/ (out[1] <= o[1] /\ out[2] <= o[2])
    <3>1. fit = out
        BY <2>4 DEF Fitted
    <3> HIDE DEF fit, to, o
    <3> QED BY <2>2, <2>4, <3>1 DEF fit, to
  <2>5. CASE ~(out[1] = 0 \/ out[2] = 0 \/ (out[1] <= o[1] /\ out[2] <= o[2]))
    <3> DEFINE s == IF o[1] * out[2] < o[2] * out[1] THEN 1 ELSE 2
    <3>1. \A i \in 1..2 : fit[i] = roundUp(Rounded(out[i], o[s], out[s]), a, o[i])
        BY <1>2, <2>5 DEF Fitted
    <3>2. out[1] \in Positive /\ out[2] \in Positive /\ (out[1] > o[1] \/ out[2] > o[2])
        BY <2>3, <2>5 DEF Positive
    <3> HIDE DEF fit, to, o
    <3>3. s \in 1..2 /\ o[s] <= out[s]
      <4>1. CASE o[1] * out[2] < o[2] * out[1]
        <5>1. ASSUME o[1] > out[1] PROVE FALSE
          <6>1. out[2] > o[2]
              BY <2>3, <3>2, <5>1 DEF Positive
          <6>2. out[1] * out[2] <= o[1] * out[2]
              BY <2>3, <3>2, <5>1 DEF Positive
          <6>3. out[1] * o[2] <= out[1] * out[2]
              BY <2>3, <3>2, <6>1, Times DEF Positive
          <6> QED BY <2>3, <3>2, <4>1, <6>2, <6>3 DEF Positive
        <5> QED BY <2>3, <3>2, <4>1, <5>1 DEF Positive
      <4>2. CASE ~(o[1] * out[2] < o[2] * out[1])
        <5>1. ASSUME o[2] > out[2] PROVE FALSE
          <6>1. out[1] > o[1]
              BY <2>3, <3>2, <5>1 DEF Positive
          <6>2. out[2] * out[1] < o[2] * out[1]
              BY <2>3, <3>2, <5>1 DEF Positive
          <6>3. out[2] * o[1] <= out[2] * out[1]
              BY <2>3, <3>2, <6>1, Times DEF Positive
          <6> QED BY <2>3, <3>2, <4>2, <6>2, <6>3 DEF Positive
        <5> QED BY <2>3, <3>2, <4>2, <5>1 DEF Positive
      <4> QED BY <4>1, <4>2
    <3>4. o[s] \in Nat \ {0} /\ out[s] \in Nat \ {0}
        BY <2>3, <3>2, <3>3 DEF Positive
    <3> HIDE DEF s
    <3>5. ASSUME NEW i \in 1..2
          PROVE  /\ fit[i] \in Nat /\ fit[i] <= out[i] /\ fit[i] <= o[i]
                 /\ \E k \in Nat : fit[i] = a * k
                 /\ fit[i] = 0 => o[i] < a \/ 2 * out[i] * o[s] < out[s]
      <4>1. out[i] \in Nat \ {0} /\ o[i] \in Nat \ {0}
          BY <2>3, <3>2 DEF Positive
      <4>2. PICK k \in Nat : out[i] = a * k
          OBVIOUS
      <4> HIDE DEF a
      <4>3. a \in Nat \ {0}
          BY DEF a
      <4>4. LET r == roundUp(Rounded(out[i], o[s], out[s]), a, o[i])
            IN  /\ r \in Nat /\ r <= out[i] /\ r <= o[i]
                /\ \E q \in Nat : r = a * q
                /\ r = 0 => o[i] < a \/ 2 * out[i] * o[s] < out[s]
          BY <3>3, <3>4, <4>1, <4>2, <4>3, FittedSide
      <4> QED BY <3>1, <4>4
    <3>6. ASSUME NEW i \in 1..2, fit[i] = 0
          PROVE  \E j \in 1..2 : to[j] < a \/ 2 * out[i] * MinOf(to[1], to[2]) < out[j]
      <4>1. CASE o[i] < a
          BY <2>2, <4>1
      <4>2. CASE 2 * out[i] * o[s] < out[s]
        <5>1. MinOf(to[1], to[2]) \in Nat /\ MinOf(to[1], to[2]) <= o[s]
            BY <2>1, <2>2, <3>3 DEF MinOf, Positive
        <5>2. 2 * out[i] \in Nat
            BY <3>2 DEF Positive
        <5>3. (2 * out[i]) * MinOf(to[1], to[2]) <= (2 * out[i]) * o[s]
            BY <3>4, <5>1, <5>2, Times
        <5>4. 2 * out[i] * MinOf(to[1], to[2]) < out[s]
            BY <3>4, <4>2, <5>1, <5>2, <5>3
        <5> QED BY <3>3, <5>4
      <4> QED BY <3>5, <3>6, <4>1, <4>2
    <3>7. \/ fit[1] <= to[1] /\ fit[2] <= to[2]
          \/ fit[1] <= to[2] /\ fit[2] <= to[1]
        BY <2>2, <3>5
    <3> QED BY <1>2, <3>5, <3>6, <3>7 DEF fit, to
  <2> QED BY <2>4, <2>5
<1> QED BY <1>1, <1>2

LEMMA TimesBoth ==
    ASSUME NEW a \in Nat, NEW b \in Nat, NEW c \in Nat, NEW d \in Nat, a <= b, c <= d
    PROVE  a * c <= b * d
<1>1. a * c <= a * d
    BY Times
<1>2. d * a <= d * b
    BY Times
<1> QED BY <1>1, <1>2

\* A requested aspect ratio only takes away from the frame.
LEMMA CropIsWithin ==
    ASSUME NEW size \in Positive \X Positive,
           NEW aspect \in (Positive \X Positive) \cup {None},
           NEW crop \in Cropped(size, aspect)
    PROVE  /\ crop = <<crop[1], crop[2]>>
           /\ crop[1] \in 0..size[1] /\ crop[2] \in 0..size[2]
<1>1. CASE aspect = None
  <2>1. crop = size
      BY <1>1 DEF Cropped
  <2> QED BY <2>1 DEF Positive
<1>2. CASE aspect # None
  <2>1. ASSUME NEW l \in Positive, NEW n \in Positive, NEW m \in Positive,
               NEW w \in Truncated(l, n, m)
        PROVE  w \in Nat
    <3> DEFINE whole == (l * n) \div m
    <3>1. l * n \in Nat \ {0} /\ m \in Nat \ {0}
        BY DEF Positive
    <3>2. whole \in Nat
        BY <3>1, Quotient
    <3>3. CASE (l * n) % m = 0
      <4>1. PICK q \in Nat : l * n = m * q
          BY <3>1, <3>3, Multiple
      <4>2. whole = q /\ q # 0
          BY <3>1, <4>1, QuotientIs
      <4>3. w \in {whole, whole - 1}
          BY DEF Truncated
      <4> HIDE DEF whole
      <4> QED BY <3>2, <4>2, <4>3
    <3>4. CASE (l * n) % m # 0
      <4>1. w = whole
          BY <3>4 DEF Truncated
      <4> QED BY <3>2, <4>1
    <3> QED BY <3>3, <3>4
  <2>2. PICK w \in Truncated(size[2], aspect[1], aspect[2]),
             h \in Truncated(size[1], aspect[2], aspect[1]) :
                crop = <<MinOf(size[1], w), MinOf(size[2], h)>>
      BY <1>2 DEF Cropped
  <2>3. aspect[1] \in Positive /\ aspect[2] \in Positive
        /\ size[1] \in Positive /\ size[2] \in Positive
      BY <1>2
  <2>4. w \in Nat /\ h \in Nat
      BY <2>1, <2>3
  <2>5. size[1] \in Nat /\ size[2] \in Nat
      BY <2>3 DEF Positive
  <2>6. MinOf(size[1], w) \in 0..size[1] /\ MinOf(size[2], h) \in 0..size[2]
      BY <2>4, <2>5 DEF MinOf
  <2> QED BY <2>2, <2>6
<1> QED BY <1>1, <1>2

\* Growing the crop to the alignment costs a step a side at most.
LEMMA WithinOneStep ==
    ASSUME NEW n \in Nat \ {0}, NEW d \in Nat \ {0}, NEW step \in Nat,
           NEW c1 \in Nat, NEW c2 \in Nat, NEW s1 \in Nat, NEW s2 \in Nat,
           d * (s1 - step) <= n * c1, d * (s2 - step) <= n * c2,
           NEW o1 \in Nat, NEW o2 \in Nat, o1 <= s1, o2 <= s2, o1 > step, o2 > step
    PROVE  (o1 - step) * (o2 - step) <= (n * n * (c1 * c2)) \div (d * d)
<1> DEFINE x == s1 - step y == s2 - step
<1>1. x \in Nat /\ y \in Nat /\ d * x <= n * c1 /\ d * y <= n * c2
    OBVIOUS
<1>2. (o1 - step) * (o2 - step) <= x * y
  <2>1. o1 - step \in Nat /\ o2 - step \in Nat /\ o1 - step <= x /\ o2 - step <= y
      OBVIOUS
  <2> HIDE DEF x, y
  <2> QED BY <1>1, <2>1, TimesBoth
<1> HIDE DEF x, y
<1>3. (d * x) * (d * y) <= (n * c1) * (n * c2)
  <2>1. d * x \in Nat /\ d * y \in Nat /\ n * c1 \in Nat /\ n * c2 \in Nat
      BY <1>1
  <2> QED BY <1>1, <2>1, TimesBoth
<1>4. (d * d) * (x * y) <= n * n * (c1 * c2)
  <2>1. (d * d) * (x * y) = (d * x) * (d * y)
      BY <1>1
  <2>2. n * n * (c1 * c2) = (n * c1) * (n * c2)
      OBVIOUS
  <2> QED BY <1>3, <2>1, <2>2
<1>5. d * d \in Nat \ {0} /\ n * n * (c1 * c2) \in Nat /\ x * y \in Nat
    BY <1>1
<1>6. x * y <= (n * n * (c1 * c2)) \div (d * d)
    BY <1>4, <1>5, QuotientAtLeast
<1>7. (n * n * (c1 * c2)) \div (d * d) \in Nat
    BY <1>5, Quotient
<1>8. (o1 - step) * (o2 - step) \in Int
    OBVIOUS
<1> QED BY <1>2, <1>5, <1>6, <1>7, <1>8

-----------------------------------------------------------------------------
(* The frames.                                                              *)

\* The types of a format request and of the settings.
IsFormat(f) ==
    /\ f.landscape \in (Positive \X Positive) \cup {None}
    /\ f.portrait \in (Positive \X Positive) \cup {None}
    /\ f.landscape_pixels \in Nat /\ f.portrait_pixels \in Nat

Typed ==
    /\ resolution_request_max_pixel_count_ \in Nat
    /\ resolution_request_target_pixel_count_ \in Nat
    /\ resolution_alignment_ \in Nat \ {0}
    /\ scale_resolution_down_to_ \in (Positive \X Positive) \cup {None}
    /\ IsFormat(output_format_request_)
    /\ stashed_output_format_request_ # None => IsFormat(stashed_output_format_request_)

\* What AdaptFrameResolution makes of a frame, in each respect.
LEMMA FrameIsRight ==
    ASSUME Typed, NEW size \in Sizes, NEW aspect \in (Positive \X Positive) \cup {None},
           NEW max \in Nat, NEW target \in Nat, target <= max,
           NEW crop \in Cropped(size, aspect)
    PROVE  LET scale == FindScale(crop, target, max)
               adjusted == Adjusted(crop, scale, size)
               scaled == Scaled(adjusted, scale)
               out == Fitted(scaled)
               a == resolution_alignment_
               to == scale_resolution_down_to_
               step == scale.n * a
           IN  /\ \A i \in 1..2 : out[i] \in Nat /\ out[i] % a = 0
               /\ \A i \in 1..2 : adjusted[i] <= size[i] /\ out[i] <= adjusted[i]
               /\ \/ \E i \in 1..2 : out[i] <= step
                  \/ (out[1] - step) * (out[2] - step) <= max
               /\ \A i \in 1..2 :
                     out[i] = 0 =>
                        \/ size[i] < scale.d * a
                        \/ crop[i] = 0
                        \/ /\ to # None
                           /\ \E j \in 1..2 :
                                 \/ to[j] < a
                                 \/ 2 * scaled[i] * MinOf(to[1], to[2]) < scaled[j]
               /\ to # None /\ out[1] > 0 /\ out[2] > 0 =>
                     \/ out[1] <= to[1] /\ out[2] <= to[2]
                     \/ out[1] <= to[2] /\ out[2] <= to[1]
               /\ Count(crop, scale) <= max
               /\ \A t \in Ladder(crop) :
                     Count(crop, t) <= max =>
                        Away(crop, target, scale) <= Away(crop, target, t)
<1> DEFINE scale == FindScale(crop, target, max)
           adjusted == Adjusted(crop, scale, size)
           scaled == Scaled(adjusted, scale)
           out == Fitted(scaled)
           a == resolution_alignment_
           to == scale_resolution_down_to_
           step == scale.n * a
<1>1. size \in Positive \X Positive
    BY SizesPositive DEF Positive
<1>2. /\ crop = <<crop[1], crop[2]>>
      /\ crop[1] \in 0..size[1] /\ crop[2] \in 0..size[2]
    BY <1>1, CropIsWithin
<1>3. size[1] \in Nat /\ size[2] \in Nat /\ crop[1] \in Nat /\ crop[2] \in Nat
    BY <1>1, <1>2 DEF Positive
<1>4. Pixels(crop) = crop[1] * crop[2] /\ Pixels(crop) \in Nat
    BY <1>3 DEF Pixels
<1>5. Count(crop, Scales(crop)[Depth]) = 0
  <2>1. \A w \in 0..size[1], h \in 0..size[2] :
           scale_pixel_count(Scales(<<w, h>>)[Depth], w * h) = 0
      BY DepthSuffices
  <2>2. scale_pixel_count(Scales(<<crop[1], crop[2]>>)[Depth], crop[1] * crop[2]) = 0
      BY <2>1, <1>2
  <2> QED BY <2>2, <1>2, <1>4 DEF Count
<1>6. /\ scale \in Fractions /\ scale.n <= scale.d
      /\ Count(crop, scale) <= max
      /\ \A t \in Ladder(crop) :
            Count(crop, t) <= max => Away(crop, target, scale) <= Away(crop, target, t)
    BY <1>4, <1>5, FindScaleIsNearest
<1> HIDE DEF scale
<1>7. a \in Nat \ {0} /\ scale.n \in Nat \ {0} /\ scale.d \in Nat \ {0}
    BY <1>6 DEF Typed, Fractions
<1>8. ASSUME NEW i \in 1..2
      PROVE  /\ adjusted[i] \in Nat /\ adjusted[i] <= size[i]
             /\ scaled[i] \in Nat /\ scaled[i] <= adjusted[i]
             /\ \E k \in Nat : scaled[i] = a * k
             /\ scaled[i] = 0 => crop[i] = 0 \/ size[i] < scale.d * a
             /\ scale.d * (scaled[i] - step) <= scale.n * crop[i]
  <2>1. /\ adjusted[i] = roundUp(crop[i], scale.d * a, size[i])
        /\ scaled[i] = (adjusted[i] \div scale.d) * scale.n
      BY DEF Adjusted, Scaled
  <2>2. crop[i] \in Nat /\ size[i] \in Nat
      BY <1>3
  <2> HIDE DEF a, adjusted, scaled
  <2>3. LET grown == roundUp(crop[i], scale.d * a, size[i])
            side == (grown \div scale.d) * scale.n
        IN  /\ grown \in Nat /\ grown <= size[i]
            /\ side \in Nat /\ side <= grown
            /\ \E k \in Nat : side = a * k
            /\ side = 0 => crop[i] = 0 \/ size[i] < scale.d * a
            /\ scale.d * (side - scale.n * a) <= scale.n * crop[i]
      BY <1>6, <1>7, <2>2, Side
  <2> QED BY <2>1, <2>3
<1>9. scaled = <<scaled[1], scaled[2]>>
    BY DEF Scaled
<1> HIDE DEF adjusted, scaled
<1>10. /\ \A i \in 1..2 :
             /\ out[i] \in Nat /\ out[i] <= scaled[i]
             /\ \E k \in Nat : out[i] = a * k
             /\ out[i] = 0 =>
                   \/ scaled[i] = 0
                   \/ /\ to # None
                      /\ \E j \in 1..2 : \/ to[j] < a
                                         \/ 2 * scaled[i] * MinOf(to[1], to[2]) < scaled[j]
       /\ to # None /\ out[1] > 0 /\ out[2] > 0 =>
             \/ out[1] <= to[1] /\ out[2] <= to[2]
             \/ out[1] <= to[2] /\ out[2] <= to[1]
  <2>1. /\ resolution_alignment_ \in Nat \ {0}
        /\ scale_resolution_down_to_ \in (Positive \X Positive) \cup {None}
      BY DEF Typed
  <2>2. \A i \in 1..2 :
           scaled[i] \in Nat /\ \E k \in Nat : scaled[i] = resolution_alignment_ * k
      BY <1>8
  <2> QED BY <2>1, <2>2, <1>9, FittedSizes
<1> HIDE DEF out, a, to
<1>11. \A i \in 1..2 : out[i] % a = 0
    BY <1>7, <1>10, Multiple
<1>12. \A i \in 1..2 : out[i] <= adjusted[i]
    BY <1>8, <1>10
<1>13. \/ \E i \in 1..2 : out[i] <= step
       \/ (out[1] - step) * (out[2] - step) <= max
  <2> SUFFICES ASSUME out[1] > step, out[2] > step
               PROVE  (out[1] - step) * (out[2] - step) <= max
    <3>1. out[1] \in Nat /\ out[2] \in Nat /\ step \in Nat
        BY <1>7, <1>10
    <3> QED BY <3>1
  <2> DEFINE c == Count(crop, scale) p == (out[1] - step) * (out[2] - step)
  <2>1. step \in Nat
      BY <1>7
  <2>2. c = (scale.n * scale.n * (crop[1] * crop[2])) \div (scale.d * scale.d)
      BY <1>4 DEF Count, scale_pixel_count
  <2>3. /\ scaled[1] \in Nat /\ scaled[2] \in Nat /\ out[1] \in Nat /\ out[2] \in Nat
        /\ out[1] <= scaled[1] /\ out[2] <= scaled[2]
        /\ scale.d * (scaled[1] - step) <= scale.n * crop[1]
        /\ scale.d * (scaled[2] - step) <= scale.n * crop[2]
      BY <1>8, <1>10
  <2> DEFINE n == scale.n d == scale.d c1 == crop[1] c2 == crop[2]
             s1 == scaled[1] s2 == scaled[2] o1 == out[1] o2 == out[2]
  <2>8. /\ n \in Nat \ {0} /\ d \in Nat \ {0} /\ c1 \in Nat /\ c2 \in Nat
        /\ s1 \in Nat /\ s2 \in Nat /\ o1 \in Nat /\ o2 \in Nat
        /\ d * (s1 - step) <= n * c1 /\ d * (s2 - step) <= n * c2
        /\ o1 <= s1 /\ o2 <= s2 /\ o1 > step /\ o2 > step
      BY <1>3, <1>7, <2>3
  <2> HIDE DEF step, c, n, d, c1, c2, s1, s2, o1, o2
  <2>4. p <= (scale.n * scale.n * (crop[1] * crop[2])) \div (scale.d * scale.d)
    <3>1. (o1 - step) * (o2 - step) <= (n * n * (c1 * c2)) \div (d * d)
        BY <2>1, <2>8, WithinOneStep
    <3> QED BY <3>1 DEF n, d, c1, c2, o1, o2
  <2>5. c \in Nat /\ c <= max
    <3>1. Below(scale, scale)
        BY <1>7 DEF Below
    <3>2. Count(crop, scale) \in Nat
        BY <1>4, <1>6, <3>1, CountBelow DEF Count
    <3> QED BY <1>6, <3>2 DEF c
  <2>6. p \in Int
      BY <2>1, <2>3
  <2> HIDE DEF p
  <2>7. p <= max
      BY <2>2, <2>4, <2>5, <2>6
  <2> QED BY <2>7 DEF p
<1>14. \A i \in 1..2 :
          out[i] = 0 =>
             \/ size[i] < scale.d * a
             \/ crop[i] = 0
             \/ /\ to # None
                /\ \E j \in 1..2 : \/ to[j] < a
                                   \/ 2 * scaled[i] * MinOf(to[1], to[2]) < scaled[j]
    BY <1>8, <1>10
<1> QED BY <1>6, <1>8, <1>10, <1>11, <1>12, <1>13, <1>14
           DEF scale, adjusted, scaled, out, a, to

\* The inductive invariant: the settings' types, and the property itself.
FrameInv == Typed /\ DeliveredFrameIsRight

\* The constructor's settings are of their types, and no frame was delivered.
LEMMA InitFrameInv == Init => FrameInv
<1> SUFFICES ASSUME Init PROVE FrameInv
    OBVIOUS
<1>1. Unlimited \in Nat /\ source_resolution_alignment_ \in Nat \ {0}
    BY LimitsTyped, SizesPositive
<1>2. Typed
  <2>1. IsFormat(NoFormat)
      BY <1>1 DEF NoFormat, IsFormat
  <2> QED BY <1>1, <2>1 DEF Init, Typed
<1>3. DeliveredFrameIsRight
    BY DEF Init, NoFrame, DeliveredFrameIsRight
<1> QED BY <1>2, <1>3 DEF FrameInv

\* A format request is of its type, whether in force or stashed.
LEMMA RequestTyped ==
    ASSUME Typed, NEW a \in (Positive \X Positive) \cup {None}, NEW b \in Nat,
           NEW c \in (Positive \X Positive) \cup {None}, NEW d \in Nat, NEW e,
           Request(a, b, c, d, e)
    PROVE  FrameInv'
<1> DEFINE request == FormatOf(a, b, c, d, e)
<1>1. /\ KeepOrStash(request) /\ UNCHANGED wants /\ last' = NoFrame
    BY DEF Request, FormatOf
<1>2. IsFormat(request)
    BY DEF IsFormat, FormatOf
<1> HIDE DEF request
<1>3. Typed'
    BY <1>1, <1>2 DEF KeepOrStash, Typed, wants
<1>4. DeliveredFrameIsRight'
    BY <1>1 DEF NoFrame, DeliveredFrameIsRight
<1> QED BY <1>3, <1>4 DEF FrameInv

LEMMA PixelsNatural ==
    ASSUME NEW size \in Positive \X Positive
    PROVE  Pixels(size) \in Nat
BY DEF Pixels, Positive

LEMMA AspectTyped ==
    ASSUME Typed, NEW aspect \in (Positive \X Positive) \cup {None}, NEW pixels \in Nat,
           NEW fps, RequestAspect(aspect, pixels, fps)
    PROVE  FrameInv'
<1>1. CASE aspect = None
    BY <1>1, RequestTyped DEF RequestAspect
<1>2. CASE aspect # None
  <2> DEFINE long == MaxOf(aspect[1], aspect[2])
             short == MinOf(aspect[1], aspect[2])
  <2>1. long \in Positive /\ short \in Positive
      BY <1>2 DEF MaxOf, MinOf
  <2>2. Request(<<long, short>>, pixels, <<short, long>>, pixels, fps)
      BY <1>2 DEF RequestAspect
  <2>3. <<long, short>> \in Positive \X Positive /\ <<short, long>> \in Positive \X Positive
      BY <2>1
  <2> QED BY <2>2, <2>3, RequestTyped
<1> QED BY <1>1, <1>2

\* A frame leaves the adapter right in each respect (AdaptFrameResolution).
LEMMA FrameStep ==
    ASSUME Typed, AdaptFrameResolution
    PROVE  DeliveredFrameIsRight'
<1>1. PICK size \in Sizes, drop \in BOOLEAN : AdaptFrameResolution!(size, drop)
    BY DEF AdaptFrameResolution
<1> DEFINE wide == size[1] > size[2]
           aspect == IF wide THEN output_format_request_.landscape
                     ELSE output_format_request_.portrait
           max == MinOf(resolution_request_max_pixel_count_,
                        IF wide THEN output_format_request_.landscape_pixels
                        ELSE output_format_request_.portrait_pixels)
           target == MinOf(resolution_request_target_pixel_count_, max)
<1>2. UNCHANGED <<wants, format>>
    BY DEF AdaptFrameResolution
<1>3. aspect \in (Positive \X Positive) \cup {None}
    BY DEF Typed, IsFormat
<1>4. max \in Nat /\ target \in Nat /\ target <= max
    BY DEF Typed, IsFormat, MinOf
<1>5. CASE max = 0 \/ drop
  <2>1. last' = NoFrame
      BY <1>1, <1>5
  <2> QED BY <2>1 DEF NoFrame, DeliveredFrameIsRight
<1>6. CASE ~(max = 0 \/ drop)
  <2> DEFINE found(crop) == FindScale(crop, target, max)
             grown(crop) == Adjusted(crop, found(crop), size)
  <2>1. PICK crop \in Cropped(size, aspect) :
           last' = [delivered |-> TRUE, size |-> size,
                    crop |-> crop, adjusted |-> grown(crop),
                    scale |-> found(crop), target |-> target, max |-> max,
                    out |-> Fitted(Scaled(grown(crop), found(crop)))]
      BY <1>1, <1>6
  <2> DEFINE scale == found(crop)
             adjusted == grown(crop)
             scaled == Scaled(adjusted, scale)
             out == Fitted(scaled)
  <2>2. /\ last'.size = size /\ last'.crop = crop /\ last'.adjusted = adjusted
        /\ last'.scale = scale /\ last'.target = target /\ last'.max = max
        /\ last'.out = out
      BY <2>1
  <2> HIDE DEF aspect, max, target
  <2>3. LET a == resolution_alignment_
            to == scale_resolution_down_to_
            step == scale.n * a
        IN  /\ \A i \in 1..2 : out[i] \in Nat /\ out[i] % a = 0
            /\ \A i \in 1..2 : adjusted[i] <= size[i] /\ out[i] <= adjusted[i]
            /\ \/ \E i \in 1..2 : out[i] <= step
               \/ (out[1] - step) * (out[2] - step) <= max
            /\ \A i \in 1..2 :
                  out[i] = 0 =>
                     \/ size[i] < scale.d * a
                     \/ crop[i] = 0
                     \/ /\ to # None
                        /\ \E j \in 1..2 :
                              \/ to[j] < a
                              \/ 2 * scaled[i] * MinOf(to[1], to[2]) < scaled[j]
            /\ to # None /\ out[1] > 0 /\ out[2] > 0 =>
                  \/ out[1] <= to[1] /\ out[2] <= to[2]
                  \/ out[1] <= to[2] /\ out[2] <= to[1]
            /\ Count(crop, scale) <= max
            /\ \A t \in Ladder(crop) :
                  Count(crop, t) <= max =>
                     Away(crop, target, scale) <= Away(crop, target, t)
      BY <1>3, <1>4, FrameIsRight
  <2>4. /\ resolution_alignment_' = resolution_alignment_
        /\ scale_resolution_down_to_' = scale_resolution_down_to_
      BY <1>2 DEF wants
  <2> HIDE DEF scale, adjusted, out
  <2>5. Aligned'
      BY <2>2, <2>3, <2>4 DEF Aligned
  <2>6. WithinLimit'
      BY <2>2, <2>3, <2>4 DEF WithinLimit
  <2>7. VanishesOnlyIfNarrow'
      BY <2>2, <2>3, <2>4 DEF VanishesOnlyIfNarrow
  <2>8. FitsResolution'
    <3>1. ASSUME scale_resolution_down_to_ # None
          PROVE  scale_resolution_down_to_[1] \in Nat /\ scale_resolution_down_to_[2] \in Nat
        BY <3>1 DEF Typed, Positive
    <3>2. out[1] \in Nat /\ out[2] \in Nat
        BY <2>3
    <3> QED BY <2>2, <2>3, <2>4, <3>1, <3>2 DEF FitsResolution, MaxOf, MinOf
  <2>9. ScaleIsNearest'
      BY <2>2, <2>3 DEF ScaleIsNearest, Away, Count
  <2> QED BY <2>5, <2>6, <2>7, <2>8, <2>9 DEF DeliveredFrameIsRight
<1> QED BY <1>5, <1>6

\* Wants are of their types, and their alignment is positive (OnSinkWants).
LEMMA WantsTyped ==
    ASSUME Typed, OnSinkWants
    PROVE  FrameInv'
<1>1. PICK max \in PixelLimits \cup {Unlimited} : \E target \in PixelLimits \cup {max},
           alignment \in Alignments, requested_resolution \in Resolutions \cup {None} :
              /\ resolution_request_max_pixel_count_' = max
              /\ resolution_request_target_pixel_count_' = target
              /\ resolution_alignment_' = Lcm(source_resolution_alignment_, alignment)
              /\ scale_resolution_down_to_' = requested_resolution
    BY DEF OnSinkWants
<1>2. PICK target \in PixelLimits \cup {max},
           alignment \in Alignments, requested_resolution \in Resolutions \cup {None} :
              /\ resolution_request_max_pixel_count_' = max
              /\ resolution_request_target_pixel_count_' = target
              /\ resolution_alignment_' = Lcm(source_resolution_alignment_, alignment)
              /\ scale_resolution_down_to_' = requested_resolution
    BY <1>1
<1>3. max \in Nat /\ target \in Nat
    BY LimitsTyped
<1>4. resolution_alignment_' \in Nat \ {0}
  <2>1. source_resolution_alignment_ \in Nat \ {0} /\ alignment \in Nat \ {0}
      BY SizesPositive
  <2> QED BY <1>2, <2>1, LcmPositive
<1>5. scale_resolution_down_to_' \in (Positive \X Positive) \cup {None}
    BY <1>2, SizesPositive DEF Positive
<1>6. /\ \/ output_format_request_' = output_format_request_
         \/ stashed_output_format_request_ # None /\
              output_format_request_' = stashed_output_format_request_
         \/ output_format_request_' = NoFormat
      /\ \/ stashed_output_format_request_' \in {None, stashed_output_format_request_}
         \/ stashed_output_format_request_' = output_format_request_
      /\ last' = NoFrame
    BY DEF OnSinkWants
<1>7. IsFormat(NoFormat)
    BY LimitsTyped DEF NoFormat, IsFormat
<1>8. Typed'
    BY <1>2, <1>3, <1>4, <1>5, <1>6, <1>7 DEF Typed
<1>9. DeliveredFrameIsRight'
    BY <1>6 DEF NoFrame, DeliveredFrameIsRight
<1> QED BY <1>8, <1>9 DEF FrameInv

\* Every method keeps the types, and the last frame right.
LEMMA NextFrameInv == FrameInv /\ [Next]_vars => FrameInv'
<1> SUFFICES ASSUME FrameInv, [Next]_vars PROVE FrameInv'
    OBVIOUS
<1>0. Typed
    BY DEF FrameInv
<1>1. CASE AdaptFrameResolution
  <2>1. Typed'
    <3>1. UNCHANGED <<wants, format>>
        BY <1>1 DEF AdaptFrameResolution
    <3> QED BY <1>0, <3>1 DEF Typed, wants, format
  <2> QED BY <1>0, <1>1, <2>1, FrameStep DEF FrameInv
<1>2. CASE OnOutputFormatRequest
  <2>1. CASE RequestAspect(None, Unlimited, Unlimited)
      BY <1>0, <2>1, LimitsTyped, AspectTyped
  <2>2. CASE \E size \in Resolutions, fps \in Rates \cup {Unlimited} :
                RequestAspect(size, Pixels(size), fps)
    <3>1. PICK size \in Resolutions, fps \in Rates \cup {Unlimited} :
             RequestAspect(size, Pixels(size), fps)
        BY <2>2
    <3>2. size \in Positive \X Positive
        BY SizesPositive DEF Positive
    <3>3. Pixels(size) \in Nat
        BY <3>2, PixelsNatural
    <3> QED BY <1>0, <3>1, <3>2, <3>3, AspectTyped
  <2>3. ASSUME NEW aspect \in Aspects, NEW pixels \in PixelLimits
        PROVE  /\ aspect \in (Positive \X Positive) \cup {None}
               /\ None \in (Positive \X Positive) \cup {None}
               /\ pixels \in Nat /\ Unlimited \in Nat
      BY SizesPositive, LimitsTyped DEF Positive
  <2>4. CASE \E aspect \in Aspects, pixels \in PixelLimits :
                RequestAspect(aspect, pixels, Unlimited)
      BY <1>0, <2>3, <2>4, AspectTyped
  <2>5. CASE \E aspect \in Aspects, pixels \in PixelLimits :
                Request(aspect, pixels, None, Unlimited, Unlimited)
      BY <1>0, <2>3, <2>5, RequestTyped
  <2> QED BY <1>2, <2>1, <2>2, <2>4, <2>5 DEF OnOutputFormatRequest
<1>3. CASE OnSinkWants
    BY <1>0, <1>3, WantsTyped
<1>4. CASE UNCHANGED vars
  <2>1. UNCHANGED <<wants, format, last>>
      BY <1>4 DEF vars
  <2>2. Typed'
      BY <1>0, <2>1 DEF Typed, wants, format
  <2>3. DeliveredFrameIsRight'
      BY <2>1 DEF FrameInv, wants, DeliveredFrameIsRight, Aligned, WithinLimit,
                  VanishesOnlyIfNarrow, FitsResolution, ScaleIsNearest
  <2> QED BY <2>2, <2>3 DEF FrameInv
<1> QED BY <1>1, <1>2, <1>3, <1>4 DEF Next

\* Every frame that is delivered is aligned, within the limit but for one step of
\* the alignment, vanishes in no unknown way, fits the sink's resolution, and is
\* scaled as near to the target as the loop's alternation allows
\* (AdaptFrameResolution, FindScale).
THEOREM SpecDeliveredFrameIsRight == Spec => []DeliveredFrameIsRight
<1>1. FrameInv => DeliveredFrameIsRight
    BY DEF FrameInv
<1> QED BY <1>1, InitFrameInv, NextFrameInv, PTL DEF Spec
=============================================================================

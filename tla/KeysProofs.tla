----------------------------- MODULE KeysProofs -----------------------------
(***************************************************************************)
(* Proofs about the keys, for all sizes.  Nothing but arithmetic separates *)
(* the tables: the key functions of the other tables never give the key of *)
(* a stock row or of a district, and within a table no two rows share one. *)
(***************************************************************************)
EXTENDS Keys, TLAPS

(* The sizes the program is shipped with, for any number of warehouses.    *)
ShippedSizes ==
  /\ NumDistrict = 10 /\ NumCustomer = 3000
  /\ NumItem = 100000 /\ NumStock = 100000
  /\ Word = 4294967296 /\ HistoryShift = 1048576
  /\ MaxOrderId = 10000000
  /\ MinOlCnt = 5 /\ MaxOlCnt = 15

(* Multiplication by a positive number keeps the order.                    *)
LEMMA MulMono ==
  ASSUME NEW a \in Nat, NEW b \in Nat, NEW m \in Nat, a <= b
  PROVE  a * m <= b * m /\ a * m \in Nat
  OBVIOUS

(* A number that fits in an int32_t is not changed by the conversion.      *)
LEMMA Int32Id ==
  ASSUME NEW x \in Nat, 2 * x < Word
  PROVE  Int32(x) = x
<1>1. Word \in Nat /\ Word > 0 /\ Word % 2 = 0
  BY SizeAssumption
<1>2. PICK h \in Nat : Word = 2 * h /\ Word \div 2 = h
  BY <1>1
<1>3. x + h \in 0 .. Word - 1
  BY <1>1, <1>2
<1>4. (x + h) % Word = x + h
  BY <1>1, <1>3
<1> QED
  BY <1>1, <1>2, <1>4 DEF Int32

(* The upper half of a customer or order key, and the key of a district:   *)
(* between NumDistrict + 1 and the last district of the last warehouse.    *)
LEMMA UpperIdRange ==
  ASSUME NEW w \in Warehouses, NEW d \in Districts
  PROVE  /\ UpperId(w, d) = w * NumDistrict + d
         /\ MakeDistrictKey(w, d) = w * NumDistrict + d
         /\ w * NumDistrict + d \in NumDistrict + 1 .. (NumWarehouse + 1) * NumDistrict
<1>1. /\ w \in Nat /\ w >= 1 /\ w <= NumWarehouse
      /\ d \in Nat /\ d >= 1 /\ d <= NumDistrict
      /\ NumWarehouse \in Nat /\ NumDistrict \in Nat /\ NumStock \in Nat
      /\ Word \in Nat
  BY SizeAssumption DEF Warehouses, Districts
<1>2. 1 * NumDistrict <= w * NumDistrict /\ w * NumDistrict \in Nat
  BY <1>1, MulMono
<1>3. w * NumDistrict <= NumWarehouse * NumDistrict
  BY <1>1, MulMono
<1>4. (NumWarehouse + 1) * NumDistrict = NumWarehouse * NumDistrict + NumDistrict
  BY <1>1
<1>5. NumWarehouse * NumDistrict \in Nat
  BY <1>1, MulMono
<1>6. w * NumDistrict + d \in NumDistrict + 1 .. (NumWarehouse + 1) * NumDistrict
  BY <1>1, <1>2, <1>3, <1>4, <1>5
<1>7. 1 * NumStock <= (NumWarehouse + 1) * NumStock /\ (NumWarehouse + 1) * NumStock \in Nat
  BY <1>1, MulMono
<1>8. 2 * ((NumWarehouse + 1) * NumStock) < Word
  BY <1>1, WidthAssumption
<1>9. 2 * (w * NumDistrict + d) < Word
  BY <1>1, <1>2, <1>6, <1>7, <1>8, WidthAssumption
<1> QED
  BY <1>1, <1>2, <1>6, <1>9, Int32Id DEF UpperId, MakeDistrictKey

(* Stock rows lie above every district key, in the flat range.             *)
LEMMA StockKeyRange ==
  ASSUME NEW w \in Warehouses, NEW i \in Items
  PROVE  /\ MakeStockKey(w, i) \in FlatKeys
         /\ MakeStockKey(w, i) > NumStock
<1>1. /\ w \in Nat /\ w >= 1 /\ w <= NumWarehouse
      /\ i \in Nat /\ i >= 1 /\ i <= NumStock
      /\ NumWarehouse \in Nat /\ NumStock \in Nat /\ Word \in Nat
  BY SizeAssumption DEF Warehouses, Items
<1>2. 1 * NumStock <= w * NumStock /\ w * NumStock \in Nat
  BY <1>1, MulMono
<1>3. w * NumStock <= NumWarehouse * NumStock /\ NumWarehouse * NumStock \in Nat
  BY <1>1, MulMono
<1>4. (NumWarehouse + 1) * NumStock = NumWarehouse * NumStock + NumStock
  BY <1>1
<1>5. i + w * NumStock \in NumStock + 1 .. (NumWarehouse + 1) * NumStock
  BY <1>1, <1>2, <1>3, <1>4
<1>6. 2 * (i + w * NumStock) < Word
  <2>1. 2 * ((NumWarehouse + 1) * NumStock) < Word
    BY <1>1, WidthAssumption
  <2> QED
    BY <1>1, <1>3, <1>4, <1>5, <2>1
<1>7. MakeStockKey(w, i) = i + w * NumStock
  BY <1>1, <1>2, <1>6, Int32Id DEF MakeStockKey
<1> QED
  BY <1>1, <1>5, <1>7 DEF FlatKeys

(* Warehouse, district and item keys lie below every stock key.            *)
LEMMA LowKeys ==
  /\ \A w \in Warehouses : WarehouseKey(w) \in 1 .. NumStock
  /\ \A w \in Warehouses, d \in Districts : MakeDistrictKey(w, d) \in 1 .. NumStock
  /\ \A i \in Items : ItemKey(i) \in 1 .. NumStock
<1>1. \A w \in Warehouses : WarehouseKey(w) \in 1 .. NumStock
  BY SizeAssumption, WidthAssumption DEF Warehouses, WarehouseKey
<1>2. \A i \in Items : ItemKey(i) \in 1 .. NumStock
  BY SizeAssumption DEF Items, ItemKey
<1>3. ASSUME NEW w \in Warehouses, NEW d \in Districts
      PROVE  MakeDistrictKey(w, d) \in 1 .. NumStock
  BY SizeAssumption, WidthAssumption, UpperIdRange
<1> QED
  BY <1>1, <1>2, <1>3

(* No low key is the key of a stock row.                                   *)
LEMMA LowNotStock ==
  \A k \in 1 .. NumStock : k \notin StockKeys
<1> SUFFICES ASSUME NEW k \in 1 .. NumStock, NEW w \in Warehouses, NEW i \in Items,
                    k = MakeStockKey(w, i)
             PROVE  FALSE
  BY DEF StockKeys
<1>1. MakeStockKey(w, i) > NumStock
  BY StockKeyRange
<1>2. NumStock \in Nat
  BY SizeAssumption
<1> QED
  BY <1>1, <1>2

(* The keys whose rows are protected are flat.                             *)
LEMMA ProtectedFlat ==
  /\ StockKeys \subseteq FlatKeys
  /\ DistrictKeys \subseteq FlatKeys
  /\ DistrictKeys \subseteq 1 .. NumStock
  /\ StockKeys \cap DistrictKeys = {}
<1>1. NumStock \in Nat /\ NumWarehouse \in Nat
  BY SizeAssumption
<1>2. NumStock <= (NumWarehouse + 1) * NumStock
  BY <1>1
<1>3. StockKeys \subseteq FlatKeys
  BY StockKeyRange DEF StockKeys
<1>4. DistrictKeys \subseteq 1 .. NumStock
  BY LowKeys DEF DistrictKeys
<1>5. DistrictKeys \subseteq FlatKeys
  BY <1>1, <1>2, <1>4 DEF FlatKeys
<1> QED
  BY <1>3, <1>4, <1>5, LowNotStock

(* A key packed from two halves, the upper one positive, is never flat: a  *)
(* negative lower half makes it negative, any other takes it past Word.    *)
LEMMA PackNotFlat ==
  ASSUME NEW hi \in Nat, hi >= 1, NEW lo \in Int
  PROVE  Pack32(hi, lo) \in Int \ FlatKeys
<1>1. NumStock \in Nat /\ NumWarehouse \in Nat /\ Word \in Nat
  BY SizeAssumption
<1>2. (NumWarehouse + 1) * NumStock \in Nat
  BY <1>1
<1>3. 2 * ((NumWarehouse + 1) * NumStock) < Word
  BY <1>1, WidthAssumption
<1>4. CASE lo < 0
  BY <1>1, <1>4 DEF Pack32, FlatKeys
<1>5. CASE lo >= 0
  <2>1. 1 * Word <= hi * Word /\ hi * Word \in Nat
    BY <1>1, MulMono
  <2>2. Pack32(hi, lo) = hi * Word + lo
    BY <1>5 DEF Pack32
  <2> QED
    BY <1>1, <1>2, <1>3, <1>5, <2>1, <2>2 DEF FlatKeys
<1> QED
  BY <1>4, <1>5

(* So the rows of customers, orders and new orders stay clear of the flat  *)
(* keys, whatever number stands for the customer or the order.             *)
LEMMA OrderKeysNotFlat ==
  ASSUME NEW w \in Warehouses, NEW d \in Districts, NEW lo \in Int
  PROVE  /\ MakeCustomerKey(w, d, lo) \in Int \ FlatKeys
         /\ MakeNewOrderKey(w, d, lo) \in Int \ FlatKeys
         /\ MakeOrderKey(w, d, lo) \in Int \ FlatKeys
<1>1. UpperId(w, d) \in Nat /\ UpperId(w, d) >= 1
  BY UpperIdRange, SizeAssumption
<1> QED
  BY <1>1, PackNotFlat DEF MakeCustomerKey, MakeNewOrderKey, MakeOrderKey

(* The number that stands for a customer in index and history keys.        *)
LEMMA CustomerIdRange ==
  ASSUME NEW w \in Warehouses, NEW d \in Districts, NEW c \in Customers
  PROVE  LET cid == (w * NumDistrict + d) * NumCustomer + c IN
         /\ cid \in Nat /\ cid > NumDistrict /\ Int32(cid) = cid
         /\ cid > NumDistrict * NumCustomer
<1> DEFINE u == w * NumDistrict + d
           cid == u * NumCustomer + c
<1>1. /\ NumDistrict \in Nat /\ NumWarehouse \in Nat
      /\ NumCustomer \in Nat /\ NumCustomer >= 1 /\ Word \in Nat
      /\ c \in Nat /\ c >= 1 /\ c <= NumCustomer
  BY SizeAssumption DEF Customers
<1>2. u \in Nat /\ u >= NumDistrict + 1 /\ u <= (NumWarehouse + 1) * NumDistrict
  BY <1>1, UpperIdRange
<1> HIDE DEF u
<1>3. u * 1 <= u * NumCustomer /\ u * NumCustomer \in Nat
  BY <1>1, <1>2
<1>4. cid \in Nat /\ cid > NumDistrict /\ cid > NumDistrict * NumCustomer
  <2>1. NumDistrict * NumCustomer <= u * NumCustomer /\ NumDistrict * NumCustomer \in Nat
    BY <1>1, <1>2, MulMono
  <2> QED
    BY <1>1, <1>2, <1>3, <2>1
<1>5. 2 * cid < Word
  <2> DEFINE b == (NumWarehouse + 1) * NumDistrict
  <2>1. b \in Nat
    BY <1>1
  <2>2. 2 * (b + 1) * NumCustomer < Word
    BY WidthAssumption
  <2> HIDE DEF b
  <2>3. u <= b
    BY <1>2 DEF b
  <2>4. u * NumCustomer <= b * NumCustomer
    BY <1>1, <1>2, <2>1, <2>3, MulMono
  <2>5. (b + 1) * NumCustomer = b * NumCustomer + NumCustomer
    BY <1>1, <2>1
  <2>6. 2 * (b + 1) * NumCustomer = 2 * ((b + 1) * NumCustomer)
    BY <1>1, <2>1
  <2>7. b * NumCustomer \in Nat
    BY <1>1, <2>1
  <2> QED
    BY <1>1, <1>3, <2>2, <2>4, <2>5, <2>6, <2>7
<1> QED
  BY <1>4, <1>5, Int32Id DEF u

LEMMA IndexKeyNotFlat ==
  ASSUME NEW w \in Warehouses, NEW d \in Districts, NEW c \in Customers, NEW o \in Int
  PROVE  MakeOrderIndexKey(w, d, c, o) \in Int \ FlatKeys
BY CustomerIdRange, PackNotFlat, SizeAssumption DEF MakeOrderIndexKey

LEMMA HistoryKeyNotFlat ==
  ASSUME NEW w \in Warehouses, NEW d \in Districts,
         NEW cw \in Warehouses, NEW cd \in Districts, NEW c \in Customers
  PROVE  MakeHistoryKey(w, d, cw, cd, c) \in Int \ FlatKeys
<1> DEFINE cid == (cw * NumDistrict + cd) * NumCustomer + c
           did == w * NumDistrict + d
<1>1. /\ NumDistrict \in Nat /\ NumWarehouse \in Nat /\ NumStock \in Nat
      /\ HistoryShift \in Nat /\ NumCustomer \in Nat
      /\ w \in Nat /\ d \in Nat
  BY SizeAssumption DEF Warehouses, Districts
<1> DEFINE low == NumDistrict * NumCustomer
<1>2. cid \in Nat /\ cid > low /\ Int32(cid) = cid
  BY CustomerIdRange
<1>3. did \in Nat /\ Int32(d + w * NumDistrict) = did
  BY <1>1, UpperIdRange DEF MakeDistrictKey
<1>4. MakeHistoryKey(w, d, cw, cd, c) = cid * HistoryShift + did
  BY <1>2, <1>3 DEF MakeHistoryKey
<1>5. low \in Nat
  BY <1>1
<1>6. (NumWarehouse + 1) * NumStock < low * HistoryShift
  BY WidthAssumption
<1> HIDE DEF cid, did, low
<1>7. low * HistoryShift <= cid * HistoryShift /\ cid * HistoryShift \in Nat
  BY <1>1, <1>2, <1>5, MulMono
<1>8. (NumWarehouse + 1) * NumStock \in Nat /\ low * HistoryShift \in Nat
  BY <1>1, <1>5
<1> QED
  BY <1>3, <1>4, <1>6, <1>7, <1>8 DEF FlatKeys

(* An order id that is not negative keeps the lines clear of them too.     *)
LEMMA LineKeyNotFlat ==
  ASSUME NEW w \in Warehouses, NEW d \in Districts, NEW o \in Nat, NEW n \in Nat
  PROVE  MakeOrderLineKey(w, d, o, n) \in Int \ FlatKeys
<1> DEFINE u == UpperId(w, d)
<1>1. /\ NumDistrict \in Nat /\ NumWarehouse \in Nat /\ NumStock \in Nat
      /\ MaxOrderId \in Nat /\ MaxOlCnt \in Nat
  BY SizeAssumption
<1>2. u \in Nat /\ NumDistrict <= u
  BY <1>1, UpperIdRange
<1> HIDE DEF u
<1>3. NumDistrict * MaxOrderId <= u * MaxOrderId /\ u * MaxOrderId \in Nat
  BY <1>1, <1>2, MulMono
<1>4. NumDistrict * MaxOrderId \in Nat
  BY <1>1
<1> DEFINE a == NumDistrict * MaxOrderId
           b == u * MaxOrderId + o
<1>5. a \in Nat /\ b \in Nat /\ a <= b
  BY <1>3, <1>4
<1>6. (NumWarehouse + 1) * NumStock < a * MaxOlCnt
  BY WidthAssumption
<1>7. MakeOrderLineKey(w, d, o, n) = b * MaxOlCnt + n
  BY DEF MakeOrderLineKey, u
<1> HIDE DEF a, b
<1>8. a * MaxOlCnt <= b * MaxOlCnt /\ b * MaxOlCnt \in Nat /\ a * MaxOlCnt \in Nat
  BY <1>1, <1>5, MulMono
<1>9. (NumWarehouse + 1) * NumStock \in Nat
  BY <1>1
<1> QED
  BY <1>6, <1>7, <1>8, <1>9 DEF FlatKeys
-----------------------------------------------------------------------------
(* A number written with digits below m is written in one way.             *)
LEMMA DigitsUnique ==
  ASSUME NEW m \in Nat \ {0}, NEW a \in Nat, NEW b \in Nat,
         NEW x \in Int, NEW y \in Int, x - y < m, y - x < m,
         a * m + x = b * m + y
  PROVE  a = b /\ x = y
<1>1. ASSUME NEW p \in Nat, NEW q \in Nat, p < q
      PROVE  q * m - p * m >= m
  <2>1. (p + 1) * m <= q * m
    BY <1>1, MulMono
  <2>2. (p + 1) * m = p * m + m
    OBVIOUS
  <2>3. p * m \in Nat /\ q * m \in Nat
    OBVIOUS
  <2> QED
    BY <2>1, <2>2, <2>3
<1>2. a * m \in Nat /\ b * m \in Nat
  OBVIOUS
<1>3. ~(a < b)
  BY <1>1, <1>2
<1>4. ~(b < a)
  BY <1>1, <1>2
<1>5. a = b
  BY <1>3, <1>4
<1> QED
  BY <1>2, <1>5

(* A warehouse and a district are read back from the upper half of a key.  *)
LEMMA UpperIdUnique ==
  ASSUME NEW w \in Warehouses, NEW d \in Districts, NEW v \in Warehouses, NEW e \in Districts,
         w * NumDistrict + d = v * NumDistrict + e
  PROVE  w = v /\ d = e
<1>1. /\ NumDistrict \in Nat \ {0}
      /\ w \in Nat /\ v \in Nat
      /\ d \in Int /\ e \in Int /\ d - e < NumDistrict /\ e - d < NumDistrict
  BY SizeAssumption DEF Warehouses, Districts
<1> QED
  BY <1>1, DigitsUnique

(* A customer of a warehouse and district from the number that stands for  *)
(* it in index and history keys.                                           *)
LEMMA CustomerIdUnique ==
  ASSUME NEW w \in Warehouses, NEW d \in Districts, NEW c \in Customers,
         NEW v \in Warehouses, NEW e \in Districts, NEW b \in Customers,
         (w * NumDistrict + d) * NumCustomer + c = (v * NumDistrict + e) * NumCustomer + b
  PROVE  w = v /\ d = e /\ c = b
<1>1. /\ NumCustomer \in Nat \ {0}
      /\ c \in Int /\ b \in Int /\ c - b < NumCustomer /\ b - c < NumCustomer
  BY SizeAssumption DEF Customers
<1>2. w * NumDistrict + d \in Nat /\ v * NumDistrict + e \in Nat
  BY UpperIdRange, SizeAssumption
<1>3. w * NumDistrict + d = v * NumDistrict + e /\ c = b
  <2> DEFINE s == w * NumDistrict + d
             t == v * NumDistrict + e
  <2>1. s \in Nat /\ t \in Nat /\ s * NumCustomer + c = t * NumCustomer + b
    BY <1>2
  <2> HIDE DEF s, t
  <2>2. s = t /\ c = b
    BY <1>1, <2>1, DigitsUnique
  <2> QED
    BY <2>2 DEF s, t
<1> QED
  BY <1>3, UpperIdUnique

(* The halves of a key packed from numbers that are not negative.          *)
LEMMA PackUnique ==
  ASSUME NEW a \in Nat, NEW b \in Nat,
         NEW x \in 0 .. (Word \div 2) - 1, NEW y \in 0 .. (Word \div 2) - 1,
         Pack32(a, x) = Pack32(b, y)
  PROVE  a = b /\ x = y
<1>1. Word \in Nat \ {0} /\ Word % 2 = 0
  BY SizeAssumption
<1>2. PICK h \in Nat : Word = 2 * h /\ Word \div 2 = h
  BY <1>1
<1>3. x \in Nat /\ y \in Nat /\ x - y < Word /\ y - x < Word
  BY <1>1, <1>2
<1>4. a * Word + x = b * Word + y
  BY <1>3 DEF Pack32
<1> QED
  BY <1>1, <1>3, <1>4, DigitsUnique

OrderIds == 0 .. (Word \div 2) - 1

(* What the keys are in the sizes the program starts with.                 *)
LEMMA CustomersAreSmall == Customers \subseteq OrderIds
<1>1. /\ NumCustomer \in Nat /\ NumWarehouse \in Nat /\ NumDistrict \in Nat \ {0}
      /\ Word \in Nat \ {0} /\ Word % 2 = 0
  BY SizeAssumption
<1>2. PICK h \in Nat : Word = 2 * h /\ Word \div 2 = h
  BY <1>1
<1> DEFINE b == (NumWarehouse + 1) * NumDistrict
<1>3. b \in Nat
  BY <1>1
<1>4. 2 * (b + 1) * NumCustomer < Word
  BY WidthAssumption
<1> HIDE DEF b
<1>5. 1 * NumCustomer <= (b + 1) * NumCustomer
  BY <1>1, <1>3, MulMono
<1>6. 2 * (b + 1) * NumCustomer = 2 * ((b + 1) * NumCustomer) /\ (b + 1) * NumCustomer \in Nat
  BY <1>1, <1>3
<1>7. NumCustomer < h
  BY <1>1, <1>2, <1>4, <1>5, <1>6
<1> QED
  BY <1>1, <1>2, <1>7 DEF Customers, OrderIds

(* A key packed from a district and a number that is not negative.         *)
LEMMA HalvesUnique ==
  ASSUME NEW w \in Warehouses, NEW d \in Districts, NEW x \in OrderIds,
         NEW v \in Warehouses, NEW e \in Districts, NEW y \in OrderIds,
         MakeOrderKey(w, d, x) = MakeOrderKey(v, e, y)
  PROVE  w = v /\ d = e /\ x = y
<1>1. UpperId(w, d) \in Nat /\ UpperId(v, e) \in Nat
  BY UpperIdRange, SizeAssumption
<1>2. UpperId(w, d) = UpperId(v, e) /\ x = y
  BY <1>1, PackUnique DEF MakeOrderKey, OrderIds
<1> QED
  BY <1>2, UpperIdRange, UpperIdUnique

LEMMA IndexKeyUnique ==
  ASSUME NEW w \in Warehouses, NEW d \in Districts, NEW c \in Customers, NEW x \in OrderIds,
         NEW v \in Warehouses, NEW e \in Districts, NEW b \in Customers, NEW y \in OrderIds,
         MakeOrderIndexKey(w, d, c, x) = MakeOrderIndexKey(v, e, b, y)
  PROVE  w = v /\ d = e /\ c = b /\ x = y
<1> DEFINE s == (w * NumDistrict + d) * NumCustomer + c
           t == (v * NumDistrict + e) * NumCustomer + b
<1>1. s \in Nat /\ Int32(s) = s /\ t \in Nat /\ Int32(t) = t
  BY CustomerIdRange
<1>2. Pack32(s, x) = Pack32(t, y)
  BY <1>1 DEF MakeOrderIndexKey
<1>3. s = t /\ x = y
  <2> HIDE DEF s, t
  <2> QED
    BY <1>1, <1>2, PackUnique DEF OrderIds
<1> QED
  BY <1>3, CustomerIdUnique

(* Order lines whose keys meet, from any two orders.                       *)
LEMMA LineKeysMeet ==
  ASSUME NEW w \in Warehouses, NEW d \in Districts, NEW o \in OrderIds, NEW n \in 1 .. MaxOlCnt,
         NEW v \in Warehouses, NEW e \in Districts, NEW p \in OrderIds, NEW k \in 1 .. MaxOlCnt
  PROVE  MakeOrderLineKey(w, d, o, n) = MakeOrderLineKey(v, e, p, k)
           <=> n = k /\ o - p = (UpperId(v, e) - UpperId(w, d)) * MaxOrderId
<1> DEFINE s == UpperId(w, d)
           t == UpperId(v, e)
           a == s * MaxOrderId + o
           b == t * MaxOrderId + p
<1>1. /\ MaxOrderId \in Nat \ {0} /\ MaxOlCnt \in Nat \ {0}
      /\ o \in Nat /\ p \in Nat
      /\ n \in Int /\ k \in Int /\ n - k < MaxOlCnt /\ k - n < MaxOlCnt
  BY SizeAssumption DEF OrderIds
<1>2. s \in Nat /\ t \in Nat
  BY UpperIdRange, SizeAssumption
<1>3. a \in Nat /\ b \in Nat
  <2> HIDE DEF s, t
  <2> QED
    BY <1>1, <1>2
<1>4. a = b <=> o - p = (t - s) * MaxOrderId
  <2>1. (t - s) * MaxOrderId = t * MaxOrderId - s * MaxOrderId
    <3> HIDE DEF s, t
    <3> QED
      BY <1>1, <1>2
  <2>2. s * MaxOrderId \in Nat /\ t * MaxOrderId \in Nat
    <3> HIDE DEF s, t
    <3> QED
      BY <1>1, <1>2
  <2> QED
    BY <1>1, <2>1, <2>2
<1>5. a * MaxOlCnt + n = b * MaxOlCnt + k <=> a = b /\ n = k
  <2> HIDE DEF a, b
  <2>1. a = b /\ n = k => a * MaxOlCnt + n = b * MaxOlCnt + k
    OBVIOUS
  <2>2. a * MaxOlCnt + n = b * MaxOlCnt + k => a = b /\ n = k
    BY <1>1, <1>3, DigitsUnique
  <2> QED
    BY <2>1, <2>2
<1> QED
  BY <1>4, <1>5 DEF MakeOrderLineKey

LEMMA LineKeyUnique ==
  ASSUME NEW w \in Warehouses, NEW d \in Districts,
         NEW o \in 0 .. MaxOrderId - 1, NEW n \in 1 .. MaxOlCnt,
         NEW v \in Warehouses, NEW e \in Districts,
         NEW p \in 0 .. MaxOrderId - 1, NEW k \in 1 .. MaxOlCnt,
         MakeOrderLineKey(w, d, o, n) = MakeOrderLineKey(v, e, p, k)
  PROVE  w = v /\ d = e /\ o = p /\ n = k
<1> DEFINE s == UpperId(w, d)
           t == UpperId(v, e)
           a == s * MaxOrderId + o
           b == t * MaxOrderId + p
<1>1. /\ MaxOrderId \in Nat \ {0} /\ MaxOlCnt \in Nat \ {0}
      /\ o \in Nat /\ p \in Nat /\ o - p < MaxOrderId /\ p - o < MaxOrderId
      /\ n \in Int /\ k \in Int /\ n - k < MaxOlCnt /\ k - n < MaxOlCnt
  BY SizeAssumption
<1>2. s \in Nat /\ t \in Nat
  BY UpperIdRange, SizeAssumption
<1>3. a * MaxOlCnt + n = b * MaxOlCnt + k
  BY DEF MakeOrderLineKey
<1>4. a = b /\ n = k
  <2>1. a \in Nat /\ b \in Nat
    <3> HIDE DEF s, t
    <3> QED
      BY <1>1, <1>2
  <2> HIDE DEF a, b
  <2> QED
    BY <1>1, <1>3, <2>1, DigitsUnique
<1>5. s = t /\ o = p
  <2> HIDE DEF s, t
  <2> QED
    BY <1>1, <1>2, <1>4, DigitsUnique
<1> QED
  BY <1>4, <1>5, UpperIdRange, UpperIdUnique

LEMMA HistoryKeyUnique ==
  ASSUME NEW w \in Warehouses, NEW d \in Districts,
         NEW cw \in Warehouses, NEW cd \in Districts, NEW c \in Customers,
         NEW v \in Warehouses, NEW e \in Districts,
         NEW bw \in Warehouses, NEW bd \in Districts, NEW b \in Customers,
         MakeHistoryKey(w, d, cw, cd, c) = MakeHistoryKey(v, e, bw, bd, b)
  PROVE  w = v /\ d = e /\ cw = bw /\ cd = bd /\ c = b
<1> DEFINE s == (cw * NumDistrict + cd) * NumCustomer + c
           t == (bw * NumDistrict + bd) * NumCustomer + b
           x == w * NumDistrict + d
           y == v * NumDistrict + e
<1>1. s \in Nat /\ Int32(s) = s /\ t \in Nat /\ Int32(t) = t
  BY CustomerIdRange
<1>2. /\ x \in Nat /\ Int32(d + w * NumDistrict) = x
      /\ y \in Nat /\ Int32(e + v * NumDistrict) = y
  BY UpperIdRange, SizeAssumption DEF MakeDistrictKey
<1>3. HistoryShift \in Nat \ {0} /\ x - y < HistoryShift /\ y - x < HistoryShift
  <2>1. /\ x \in 1 .. (NumWarehouse + 1) * NumDistrict
        /\ y \in 1 .. (NumWarehouse + 1) * NumDistrict
        /\ (NumWarehouse + 1) * NumDistrict \in Nat
    BY UpperIdRange, SizeAssumption
  <2> HIDE DEF x, y
  <2> QED
    BY <2>1, SizeAssumption, WidthAssumption
<1>4. s * HistoryShift + x = t * HistoryShift + y
  BY <1>1, <1>2 DEF MakeHistoryKey
<1>5. s = t /\ x = y
  <2> HIDE DEF s, t, x, y
  <2> QED
    BY <1>1, <1>2, <1>3, <1>4, DigitsUnique
<1> QED
  BY <1>5, CustomerIdUnique, UpperIdUnique

(* The key of a stock row is what is computed, before the conversion.      *)
LEMMA StockKeyValue ==
  ASSUME NEW w \in Warehouses, NEW i \in Items
  PROVE  MakeStockKey(w, i) = w * NumStock + i
<1>1. /\ w \in Nat /\ w >= 1 /\ w <= NumWarehouse /\ i \in Nat /\ i >= 1 /\ i <= NumStock
      /\ NumWarehouse \in Nat /\ NumStock \in Nat /\ Word \in Nat
  BY SizeAssumption DEF Warehouses, Items
<1>2. w * NumStock <= NumWarehouse * NumStock /\ w * NumStock \in Nat
  BY <1>1, MulMono
<1>3. 2 * ((NumWarehouse + 1) * NumStock) < Word
  BY <1>1, WidthAssumption
<1>4. (NumWarehouse + 1) * NumStock = NumWarehouse * NumStock + NumStock
  BY <1>1
<1>5. 2 * (i + w * NumStock) < Word
  BY <1>1, <1>2, <1>3, <1>4
<1> QED
  BY <1>1, <1>2, <1>5, Int32Id DEF MakeStockKey

(* One step for each table.                                                *)
THEOREM KeysAreUnique == KeysUnique
<1>1. ASSUME NEW x \in Warehouses \X Districts, NEW y \in Warehouses \X Districts,
             MakeDistrictKey(x[1], x[2]) = MakeDistrictKey(y[1], y[2])
      PROVE  x = y
  BY <1>1, UpperIdRange, UpperIdUnique
<1>2. ASSUME NEW x \in Warehouses \X Items, NEW y \in Warehouses \X Items,
             MakeStockKey(x[1], x[2]) = MakeStockKey(y[1], y[2])
      PROVE  x = y
  <2>1. x[1] * NumStock + x[2] = y[1] * NumStock + y[2]
    BY <1>2, StockKeyValue
  <2>2. /\ NumStock \in Nat \ {0} /\ NumItem \in Nat /\ NumItem <= NumStock
        /\ x[1] \in Nat /\ y[1] \in Nat /\ x[2] \in Int /\ y[2] \in Int
        /\ x[2] - y[2] < NumStock /\ y[2] - x[2] < NumStock
    BY SizeAssumption DEF Warehouses, Items
  <2>3. x[1] = y[1] /\ x[2] = y[2]
    BY <2>1, <2>2, DigitsUnique
  <2> QED
    BY <2>3
<1>3. ASSUME NEW x \in Warehouses \X Districts \X Customers,
             NEW y \in Warehouses \X Districts \X Customers,
             MakeCustomerKey(x[1], x[2], x[3]) = MakeCustomerKey(y[1], y[2], y[3])
      PROVE  x = y
  <2>1. x[3] \in OrderIds /\ y[3] \in OrderIds
    BY CustomersAreSmall DEF OrderIds
  <2> QED
    BY <1>3, <2>1, HalvesUnique DEF MakeCustomerKey, MakeOrderKey
<1>4. ASSUME NEW x \in Warehouses \X Districts \X OrderIds,
             NEW y \in Warehouses \X Districts \X OrderIds,
             MakeOrderKey(x[1], x[2], x[3]) = MakeOrderKey(y[1], y[2], y[3])
      PROVE  x = y
  BY <1>4, HalvesUnique
<1>5. ASSUME NEW x \in Warehouses \X Districts \X Customers \X OrderIds,
             NEW y \in Warehouses \X Districts \X Customers \X OrderIds,
             MakeOrderIndexKey(x[1], x[2], x[3], x[4]) =
               MakeOrderIndexKey(y[1], y[2], y[3], y[4])
      PROVE  x = y
  BY <1>5, IndexKeyUnique
<1>6. ASSUME NEW x \in Warehouses \X Districts, NEW y \in Warehouses \X Districts,
             NEW o \in OrderIds, NEW p \in OrderIds,
             NEW n \in 1 .. MaxOlCnt, NEW m \in 1 .. MaxOlCnt
      PROVE  MakeOrderLineKey(x[1], x[2], o, n) = MakeOrderLineKey(y[1], y[2], p, m)
               <=> /\ n = m
                   /\ o - p = (UpperId(y[1], y[2]) - UpperId(x[1], x[2])) * MaxOrderId
  BY LineKeysMeet
<1>7. ASSUME NEW x \in Warehouses \X Districts \X Warehouses \X Districts \X Customers,
             NEW y \in Warehouses \X Districts \X Warehouses \X Districts \X Customers,
             MakeHistoryKey(x[1], x[2], x[3], x[4], x[5]) =
               MakeHistoryKey(y[1], y[2], y[3], y[4], y[5])
      PROVE  x = y
  <2>1. /\ x[1] = y[1] /\ x[2] = y[2] /\ x[3] = y[3] /\ x[4] = y[4] /\ x[5] = y[5]
    <3>1. /\ x[1] \in Warehouses /\ x[2] \in Districts /\ x[3] \in Warehouses
          /\ x[4] \in Districts /\ x[5] \in Customers
          /\ y[1] \in Warehouses /\ y[2] \in Districts /\ y[3] \in Warehouses
          /\ y[4] \in Districts /\ y[5] \in Customers
      OBVIOUS
    <3> DEFINE same == MakeHistoryKey(x[1], x[2], x[3], x[4], x[5]) =
                         MakeHistoryKey(y[1], y[2], y[3], y[4], y[5])
    <3>2. same
      BY <1>7
    <3> QED
      BY <3>1, <3>2, HistoryKeyUnique, SMTT(60)
  <2> QED
    BY <2>1
<1> QED
  BY <1>1, <1>2, <1>3, <1>4, <1>5, <1>6, <1>7 DEF KeysUnique, IsInjective, OrderIds
-----------------------------------------------------------------------------
(* The shipped sizes compare as WidthAssumption says.                      *)
LEMMA ShippedWidths ==
  ASSUME ShippedSizes, NumWarehouse \in 1 .. 9999
  PROVE  WidthAssumption
<1>1. /\ NumDistrict = 10 /\ NumCustomer = 3000 /\ NumStock = 100000
      /\ Word = 4294967296 /\ HistoryShift = 1048576
      /\ MaxOrderId = 10000000 /\ MaxOlCnt = 15
  BY SMT DEF ShippedSizes
<1>2. NumWarehouse \in Int /\ 1 <= NumWarehouse /\ NumWarehouse <= 9999
  BY SMT
<1> QED
  BY SMT, <1>1, <1>2
=============================================================================

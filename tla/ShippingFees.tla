----------------------------- MODULE ShippingFees -----------------------------
(***************************************************************************)
(* What the delivery of a parcel costs (ShippingPricingService): the box   *)
(* it is packed in, the weight that is charged, the route between two      *)
(* provinces, the rate of the route and the fee.  All amounts are integers *)
(* of grams and dong.  The one variable is a parcel that grows by a book   *)
(* at a time.                                                              *)
(***************************************************************************)
EXTENDS Integers, Sequences

CONSTANTS
    BookWeights,        \* product_variants.weight_gram
    MaxBooks            \* bound on the books of a parcel

ASSUME ShippingParameters == BookWeights \subseteq Nat \ {0} /\ MaxBooks \in Nat

VARIABLE parcel         \* how many books, and how much they weigh

ParcelTypeOK == parcel \in [books: 0..MaxBooks, grams: Nat]

\* Math.ceil(a / b) for b > 0 and a >= 0.
CeilDiv(a, b) == (a + b - 1) \div b

-----------------------------------------------------------------------------
(* PACKAGING_POLICY_V1: the smallest quantity of a box, the heaviest content *)
(* and its own weight.                                                       *)
Box(from, holds, weighs) == [from |-> from, holds |-> holds, weighs |-> weighs]

\* Mutant: a digit of the last box is missing.
BoxesMistyped == << Box(1, 1000, 100), Box(2, 2000, 200), Box(4, 4000, 350),
                    Box(7, 7000, 500), Box(11, 15000, 80) >>

Boxes == << Box(1, 1000, 100), Box(2, 2000, 200), Box(4, 4000, 350),
            Box(7, 7000, 500), Box(11, 15000, 800) >>

\* PackagingCalculator: the box for the quantity or the first larger one that
\* holds the weight.
Fitting(p) == {i \in DOMAIN Boxes :
                  /\ p.grams <= Boxes[i].holds
                  /\ i = Len(Boxes) \/ p.books < Boxes[i + 1].from}

Packed(p) == CHOOSE i \in Fitting(p) : \A j \in Fitting(p) : i <= j

WeightStep == 500
MaximumWeight == 20000

\* ChargeableWeightCalculator.
Gross(p) == p.grams + Boxes[Packed(p)].weighs
Chargeable(p) == CeilDiv(Gross(p), WeightStep) * WeightStep

Deliverable(p) ==
    /\ p.books > 0
    /\ Fitting(p) # {}
    /\ Chargeable(p) <= MaximumWeight

-----------------------------------------------------------------------------
(* The route and its rate. *)

North == {1, 4, 8, 11, 12, 14, 15, 19, 20, 22, 24, 25, 31, 33, 37}
Central == {38, 40, 42, 44, 46, 48, 51, 52, 56, 66, 68}
South == {72, 75, 79, 82, 86, 91, 92, 96}
Provinces == North \cup Central \cup South

MajorOrigins == {1, 79}
SpecialPairs == {{1, 79}, {1, 48}, {48, 79}}

\* ShippingRouteResolver.resolve.
Route(from, to) ==
    IF from = to THEN "SAME_PROVINCE"
    ELSE IF from \in MajorOrigins /\ {from, to} \in SpecialPairs THEN "SPECIAL_STANDARD"
    ELSE IF \E region \in {North, Central, South} : {from, to} \subseteq region
         THEN "SAME_REGION"
    ELSE IF {from, to} \cap Central = {} THEN "FAR_REGION" ELSE "ADJACENT_REGION"

\* destinationFee and the rates: a ward or a commune, what the base fee covers,
\* and the fee for each further step of weight.
Rate(ward, commune, covers, step) ==
    [ward |-> ward, commune |-> commune, covers |-> covers, step |-> step]

SharedRates ==
    [SAME_REGION |-> Rate(30000, 35000, 500, 2500),
     ADJACENT_REGION |-> Rate(30000, 37000, 500, 5000),
     FAR_REGION |-> Rate(32000, 40000, 500, 5000)]

\* ShippingRatePolicyService.resolve.
RateOf(from, to) ==
    LET route == Route(from, to) IN
    IF route = "SAME_PROVINCE"
    THEN Rate(IF from \in MajorOrigins THEN 22000 ELSE 30000, 30000, 3000, 2500)
    ELSE IF route = "SPECIAL_STANDARD" THEN Rate(30000, 40000, 500, 5000)
    ELSE SharedRates[route]

Rates == {RateOf(from, to) : from, to \in Provinces}

\* DestinationTypeResolver.resolve: whatever is not a ward is charged as a commune.
BaseFee(rate, destination) == IF destination = "WARD" THEN rate.ward ELSE rate.commune

Destinations == {"WARD", "COMMUNE", "SPECIAL_ZONE", "UNKNOWN"}

\* ShippingFeeCalculator: 5 percent for fuel, rounded up to a thousand.
ExtraSteps(p, rate) ==
    IF Chargeable(p) <= rate.covers THEN 0 ELSE CeilDiv(Chargeable(p) - rate.covers, WeightStep)

BeforeFuel(p, rate, destination) == BaseFee(rate, destination) + ExtraSteps(p, rate) * rate.step

Fee(p, rate, destination) ==
    LET base == BeforeFuel(p, rate, destination)
    IN CeilDiv(base + (base * 5) \div 100, 1000) * 1000

-----------------------------------------------------------------------------
ParcelInit == parcel = [books |-> 0, grams |-> 0]

AddBook(grams) ==
    /\ parcel.books < MaxBooks
    /\ parcel' = [books |-> parcel.books + 1, grams |-> parcel.grams + grams]

ParcelNext == \E grams \in BookWeights : AddBook(grams)

ParcelSpec == ParcelInit /\ [][ParcelNext]_parcel

-----------------------------------------------------------------------------
\* One more book never makes the delivery cheaper or a refused parcel welcome,
\* on any route, though it can change the box, the weight step and the rounding;
\* and a ward never pays more than a commune.
FeeNeverFalls ==
    [][parcel.books > 0 =>
          /\ Deliverable(parcel') => Deliverable(parcel)
          /\ Deliverable(parcel') =>
                 \A rate \in Rates, d \in Destinations :
                     /\ Fee(parcel, rate, d) <= Fee(parcel', rate, d)
                     /\ Fee(parcel', rate, "WARD") <= Fee(parcel', rate, d)]_parcel
=============================================================================

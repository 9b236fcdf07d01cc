------------------------------- MODULE WebAPI -------------------------------
(***************************************************************************)
(* What lies between the exchange and a trader's client: the server turns  *)
(* a result into an answer (HTTPServer.ts), the client checks the answer   *)
(* against a schema (Validation.ts) and gives its caller the result or an  *)
(* error (HTTPClient.ts, ExchangeClient.ts).                               *)
(***************************************************************************)
EXTENDS Integers

(***************************************************************************)
(* Schemas.  Of all they ask for, only the numbers are not there already.  *)
(***************************************************************************)
\* A schema for a number is a record of the checks it asks for.
bigNumberValidator(schema, data) ==
    /\ "checkLessThanOrEqualTo" \in DOMAIN schema => data <= schema.checkLessThanOrEqualTo
    /\ "checkPositive" \in DOMAIN schema => data > 0
    /\ "checkNonNegative" \in DOMAIN schema => data >= 0

Positive == [checkPositive |-> TRUE]
NonNegative == [checkNonNegative |-> TRUE]
PositiveUpTo(most) == [checkPositive |-> TRUE, checkLessThanOrEqualTo |-> most]
NonNegativeUpTo(most) == [checkNonNegative |-> TRUE, checkLessThanOrEqualTo |-> most]

Level(priceLevel) ==
    \A data \in {priceLevel.price, priceLevel.amount} : bigNumberValidator(Positive, data)

validateOrderBook(book) ==
    \A levels \in {book.bids, book.asks} : \A i \in DOMAIN levels : Level(levels[i])

validateTrade(trade) ==
    \A data \in {trade.price, trade.amount} : bigNumberValidator(Positive, data)

validateOrder(order) ==
    /\ order.status \in {"open", "closed", "canceled"}
    /\ \A data \in {order.price, order.amount} : bigNumberValidator(Positive, data)
    /\ \A data \in {order.filled, order.remaining} : bigNumberValidator(NonNegative, data)

validateSignedFill(fill, most) ==
    /\ bigNumberValidator(NonNegativeUpTo(most), fill.buy)
    /\ bigNumberValidator(PositiveUpTo(most), fill.sell)

\* The lots of an order; those of a fee have a schema of their own.
validateSignedApproval(lots, most) ==
    \A amount \in {lots.buy.amount, lots.sell.amount} :
        bigNumberValidator(PositiveUpTo(most), amount)

(***************************************************************************)
(* The answers of the server.                                              *)
(***************************************************************************)
Json(body) == [status |-> 200, body |-> body]
JSONAPIError(status, title) == [status |-> status, title |-> title]

orderNotFound == JSONAPIError(404, "Order not found")
invalidSymbol == JSONAPIError(404, "InvalidSymbolError")

(***************************************************************************)
(* What the client makes of them.  It knows an error by its title, and     *)
(* fails on the body of an answer that its schema refuses; one trade that  *)
(* is refused, and there is no history.                                    *)
(***************************************************************************)
Nothing == "nothing"
Idle == [kind |-> Nothing]
Thrown(name) == [kind |-> "error", name |-> name]

Received(answer, valid) ==
    IF answer.status # 200 THEN Thrown(answer.title)
    ELSE IF valid THEN answer.body ELSE Thrown("Error")

\* The caller gets null for an order that is not found.
orderReceived(answer) ==
    IF answer.status = 404 THEN Idle ELSE Received(answer, validateOrder(answer.body))

bookReceived(answer) == Received(answer, validateOrderBook(answer.body.book))

tradesReceived(answer) ==
    Received(answer,
             \A i \in DOMAIN answer.body.trades : validateTrade(answer.body.trades[i]))

(***************************************************************************)
(* Amounts are shown in the units in which orders are asked for, of which  *)
(* there are fine in a match unit.                                         *)
(***************************************************************************)
orderWeiToEther(order, fine) ==
    [order EXCEPT !.amount = fine * @, !.filled = fine * @, !.remaining = fine * @]

amountsInEther(list, fine) == [i \in DOMAIN list |-> [list[i] EXCEPT !.amount = fine * @]]

bookInEther(book, fine) ==
    [book EXCEPT !.bids = amountsInEther(@, fine), !.asks = amountsInEther(@, fine)]
=============================================================================

----------------------------- MODULE MCDelivery -----------------------------
(* Instances of Executor, ThreadSnapshot and Delivery for TLC.              *)
EXTENDS Delivery, TLC

\* The bot of a prompt and where it replies mean nothing.
Useful == {a \in Actions : a.kind = "ai_prompt" => a.bot = None /\ ~a.reply}

\* Every list of up to three actions; the empty one is for what is not loaded.
Short == UNION {[1..n -> Useful] : n \in 0..3}
============================================================================

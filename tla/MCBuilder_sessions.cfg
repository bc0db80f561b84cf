SPECIFICATION Spec
CONSTANTS
  MaxSessions = 2
  Messages = {m1, m2}
  Wizards = {w1}
  NumQuestions = 2
  MaxAnswers = 3
  MaxTickets = 2
  MaxAttempts = 2
INVARIANTS
  TypeOK
  AnswersInOrder
  TicketsAreComplete
  OneOpenPerThread
  WizardInStep
  SweptNotOpen
PROPERTY ImplementsSession
CONSTRAINTS SweptSomething OneFrontEnd OneAnswered
CHECK_DEADLOCK FALSE
